---------------------------- MODULE Spec2Model ----------------------------
(***************************************************************************)
(* Verification model of external-secrets:                                 *)
(*   - the push/ownership protocol of a backend client (Push, Delete,      *)
(*     Exists over the read/create/update/delete primitives)               *)
(* and of its KeyHub provider:                                             *)
(*   - Provider.newClient, the store client cache guarded by the global    *)
(*     mutex useMu                                                         *)
(*   - client.getVaultRecord, the versioned record cache guarded by the    *)
(*     hashed key mutex keymutex.NewHashed(16)                             *)
(* The generic cache (pkg/cache) is modelled from its specification:       *)
(* Get hits only on (key present, version equal), Add overwrites,          *)
(* capacity eviction may remove any entry at any moment.                   *)
(***************************************************************************)
EXTENDS Integers, Sequences, FiniteSets, TLC

(***************************************************************************)
(* Bounds of the model.                                                    *)
(***************************************************************************)
\* worker goroutines (reconcilers) calling into the provider concurrently
NumProcs == 2
\* distinct store identities (name, namespace, kind)
NumStores == 2
\* highest resourceVersion a store reaches (it starts at 1)
MaxVersion == 2
\* calls one worker makes
MaxCalls == 2
\* modifications of remote vault records in all (each advances one by a tick)
MaxTicks == 1
\* lastModifiedAt of every vault record at the start, in ticks (9.5 s)
StartTicks == 19

\* const batchSize = 100 of iterateVaultRecords, scaled down
BatchSize == 2
\* most vault records the backend holds
MaxRecords == 5
\* GetVaultRecordMetadata calls made
MaxListings == 1
\* getVariables calls made
MaxVariableReads == 1

\* modifications of one vault record while its calls are followed closely
MaxRecordWrites == 2

\* Push/Delete/Exists calls the push client makes, one after the other
MaxOps == 3
\* write calls made on the clients of the read-only providers
MaxWrites == 3
\* longest spec.data and spec.dataFrom of an ExternalSecret
MaxData == 3
MaxDataFrom == 2
\* admission requests handled in one behaviour
MaxAdmissions == 1
\* conditions of a SecretStore and namespace regexes of one condition
MaxConditions == 2
MaxRegexes == 2
\* backend registrations and store validations in one behaviour
MaxRegistrations == 2
MaxStoreChecks == 1
\* vault records one find query matches, and client calls in one behaviour
MaxMatches == 2
MaxClientCalls == 1
\* calls of the KeyHub API client in one behaviour
MaxApiCalls == 2
\* segments of a property path, keys of a JSON object and of an object
\* nested in it, and property resolutions in one behaviour
MaxPath == 3
MaxKeys == 2
MaxInnerKeys == 1
MaxResolutions == 1
MaxTags == 2
MaxTagReads == 1
MaxProviderChecks == 1
\* backend calls that fail, and writes by other systems, in all
MaxFaults == 1

Procs == 1..NumProcs
Stores == 1..NumStores
Versions == 1..MaxVersion

VARIABLES
    \* ---- Kubernetes side: the store objects
    storeVersion,   \* [Stores -> Versions], ObjectMeta.ResourceVersion now
    \* ---- package keyhub globals (part_003:30-36)
    clientCache,    \* cache.Cache[*client]: cache.Key -> [version, value]
    useMu,          \* sync.Mutex: the set of its holders ({} = unlocked)
    \* ---- one Provider.newClient call per worker
    ncPc,           \* position in newClient
    ncStore,        \* the store snapshot passed in: [id, resourceVersion]
    ncRet,          \* the returned (client, err)
    \* ---- KeyHub server side
    remote,         \* [UUIDs -> ticks]: lastModifiedAt of each vault record
    \* ---- one *client (part_001:39-44)
    recordCache,    \* cache.Cache[VaultVaultRecordable]
    kmHolder,       \* keymutex.NewHashed(16): bucket -> set of holders
    \* ---- one client.getVaultRecord call per worker
    gvPc,           \* position in getVaultRecord
    gvRef,          \* the ref passed in: [Key, Version]
    gvTok,          \* lastModifiedAt obtained by the latest probe (ticks)
    gvRet,          \* (record, err): the local record, then the result
    gvLog,          \* what this call did so far: checks, probes, writes
    \* ---- bookkeeping of the verification
    calls,          \* calls begun per worker
    factoryCalls,   \* NewClient invocations per (store, resourceVersion)
    fetchCalls,     \* GetVaultRecord invocations per uuid
    hist,           \* nc, gv: the stores and uuids whose entry was removed or
                    \* whose backend call failed; ncRaced: the newClient calls
                    \* that met an eviction between their two reads
    \* ---- the backend of the push client
    vault,          \* remote key -> the object stored under it, or NoObject
    \* ---- the Push / Delete / Exists call in progress
    psPc,           \* position in the call
    psOp,           \* [op, key, value, meta]: the request
    psRead,         \* what the read of the current state returned
    psRet,          \* [exists, err]: the result
    psWrote,        \* the backend write this call issued ("none" if none)
    \* ---- bookkeeping of the verification
    psTrace,        \* the finished calls, in order
    psFaults,       \* failed backend calls and foreign writes so far
    \* ---- write calls on the clients of the KeyHub and Webhook providers
    wrTrace,        \* the finished PushSecret / DeleteSecret calls, in order
    wrSent,         \* requests the webhook backend received
    \* ---- the admission webhook of ExternalSecret
    vdCount,        \* admission requests handled so far
    vdCall,         \* [op, old, obj]: the latest validation call
    vdRet,          \* its error: the joined messages, <<>> for nil
    \* ---- the admission webhook of SecretStore and the provider registry
    builder,        \* registered backends: [Backends -> maintenance status, "none" if unregistered]
    vsRegs,         \* the registrations made so far, in order: <<backend, status>>
    vsCount,        \* store validations handled so far
    vsCall,         \* the latest validateStore call, with the registry it saw
    vsRet,          \* [warns, err] it returned: sequences of messages, <<>> for nil
    \* ---- KeyHub client: GetSecret / GetSecretMap / GetAllSecrets on fetched records
    kpCount,        \* calls handled so far
    kpCall,         \* [fn, property, records]: the latest call and the records the backend held
    kpRet,          \* [value, data, err] it returned
    \* ---- KeyHub API client (client.go): reads of one vault record
    kcVault,        \* the uuids of the vault records KeyHub holds
    kcCount,        \* API client calls handled so far
    kcCall,         \* [fn, uuid, fault, present]: the latest call and what the backend did
    kcRet,          \* [found, err] it returned
    \* ---- resolution of a dotted property path against a JSON value
    rpCount,        \* resolutions handled so far
    rpCall,         \* [value, path]: the latest resolution
    rpRet,          \* [bytes, err] it returned
    \* ---- reading the tags of an Azure Key Vault object (metadataPolicy Fetch)
    tgCount,        \* reads handled so far
    tgCall,         \* [objType, tags, property]: the latest read
    tgRet,          \* [bytes, err] it returned
    \* ---- the providers' own ValidateStore
    pvCount,        \* calls handled so far
    pvCall,         \* [called, provider, store]: the latest call
    pvRet,          \* [err, panic]: the error returned ("nil" for none), or the panic
    \* ---- KeyHubClient.GetVaultRecordMetadata: the paging loop
    ivCount,        \* GetVaultRecordMetadata calls made so far
    ivCall,         \* the call: filter, records in the backend, server page limit
    ivPc,           \* where the call is: idle, request, done
    ivOffset,       \* offset of iterateVaultRecords
    ivWrapper,      \* the wrapper declared before the loop: "nil" or the items it holds
    ivRequests,     \* the Range header of every request sent, <<>> for none
    ivRet,          \* result and err of the call
    \* ---- gitlabBase.getVariables
    glCount,        \* getVariables calls made so far
    glCall,         \* the call: key, store environment, scope in vopts, backend answers
    glRequests,     \* the GetVariable requests sent: key and environment scope
    glRet           \* data, resp and err returned

ncVars == <<storeVersion, clientCache, useMu, ncPc, ncStore, ncRet, factoryCalls>>
gvVars == <<remote, recordCache, kmHolder, gvPc, gvRef, gvTok, gvRet,
            gvLog, fetchCalls>>
psVars == <<vault, psPc, psOp, psRead, psRet, psWrote, psTrace, psFaults>>
wrVars == <<wrTrace, wrSent>>
vdVars == <<vdCount, vdCall, vdRet>>
vsVars == <<builder, vsRegs, vsCount, vsCall, vsRet>>
kpVars == <<kpCount, kpCall, kpRet>>
kcVars == <<kcVault, kcCount, kcCall, kcRet>>
rpVars == <<rpCount, rpCall, rpRet>>
tgVars == <<tgCount, tgCall, tgRet>>
pvVars == <<pvCount, pvCall, pvRet>>
ivVars == <<ivCount, ivCall, ivPc, ivOffset, ivWrapper, ivRequests, ivRet>>
glVars == <<glCount, glCall, glRequests, glRet>>
\* everything outside the two caches
extVars == <<psVars, wrVars, vdVars, vsVars, kpVars, kcVars, rpVars, tgVars, pvVars, ivVars, glVars>>
cacheVars == <<ncVars, gvVars, calls, hist>>
nonPsVars == <<cacheVars, wrVars, vdVars, vsVars, kpVars, kcVars, rpVars, tgVars, pvVars, ivVars, glVars>>
nonWrVars == <<cacheVars, psVars, vdVars, vsVars, kpVars, kcVars, rpVars, tgVars, pvVars, ivVars, glVars>>
nonVdVars == <<cacheVars, psVars, wrVars, vsVars, kpVars, kcVars, rpVars, tgVars, pvVars, ivVars, glVars>>
nonVsVars == <<cacheVars, psVars, wrVars, vdVars, kpVars, kcVars, rpVars, tgVars, pvVars, ivVars, glVars>>
nonKpVars == <<cacheVars, psVars, wrVars, vdVars, vsVars, kcVars, rpVars, tgVars, pvVars, ivVars, glVars>>
nonKcVars == <<cacheVars, psVars, wrVars, vdVars, vsVars, kpVars, rpVars, tgVars, pvVars, ivVars, glVars>>
nonRpVars == <<cacheVars, psVars, wrVars, vdVars, vsVars, kpVars, kcVars, tgVars, pvVars, ivVars, glVars>>
nonTgVars == <<cacheVars, psVars, wrVars, vdVars, vsVars, kpVars, kcVars, rpVars, pvVars, ivVars, glVars>>
nonPvVars == <<cacheVars, psVars, wrVars, vdVars, vsVars, kpVars, kcVars, rpVars, tgVars, ivVars, glVars>>
nonIvVars == <<cacheVars, psVars, wrVars, vdVars, vsVars, kpVars, kcVars, rpVars, tgVars, pvVars, glVars>>
nonGlVars == <<cacheVars, psVars, wrVars, vdVars, vsVars, kpVars, kcVars, rpVars, tgVars, pvVars, ivVars>>
vars == <<storeVersion, clientCache, useMu, ncPc, ncStore, ncRet, factoryCalls,
          remote, recordCache, kmHolder, gvPc, gvRef, gvTok, gvRet,
          gvLog, fetchCalls, calls, hist,
          vault, psPc, psOp, psRead, psRet, psWrote, psTrace, psFaults,
          wrTrace, wrSent, vdCount, vdCall, vdRet,
          builder, vsRegs, vsCount, vsCall, vsRet,
          kpCount, kpCall, kpRet,
          kcVault, kcCount, kcCall, kcRet,
          rpCount, rpCall, rpRet,
          tgCount, tgCall, tgRet,
          pvCount, pvCall, pvRet,
          ivCount, ivCall, ivPc, ivOffset, ivWrapper, ivRequests, ivRet,
          glCount, glCall, glRequests, glRet>>

(***************************************************************************)
(* pkg/cache: the versioned cache, as its specification states it.         *)
(* A cache is a function from the keys it holds to [version, value].       *)
(***************************************************************************)
CacheContains(cache, key) == key \in DOMAIN cache

\* Get(version, key): hit only if key present and stored version = version
CacheHit(cache, version, key) ==
    /\ key \in DOMAIN cache
    /\ cache[key].version = version

CacheValue(cache, key) == cache[key].value

\* Add(version, key, value): unconditional overwrite
CacheAdd(cache, version, key, value) ==
    [x \in (DOMAIN cache) \cup {key} |->
        IF x = key THEN [version |-> version, value |-> value] ELSE cache[x]]

\* capacity eviction of one entry
CacheRemove(cache, key) == [x \in (DOMAIN cache) \ {key} |-> cache[x]]

EmptyCache == [x \in {} |-> x]

(***************************************************************************)
(* Provider.newClient (part_003:56-84)                                     *)
(***************************************************************************)
\* cache.Key{Name, Namespace, Kind} of a store
StoreKey(s) == [Name |-> s, Namespace |-> "default", Kind |-> "SecretStore"]

NilClient == [store |-> 0, version |-> 0, serial |-> 0]

\* the client NewClient builds from the store snapshot: a fresh object per call
MakeClient(s, v, n) == [store |-> s, version |-> v, serial |-> n]

NoStore == [id |-> 0, resourceVersion |-> 0]

NcReturn(p, c, e) == ncRet' = [ncRet EXCEPT ![p] = [client |-> c, err |-> e]]

\* a worker enters newClient with the store object as it reads it now
NC_Begin(p, s) ==
    /\ ncPc[p] \in {"idle", "done"}
    /\ gvPc[p] \in {"idle", "done"}
    /\ calls[p] < MaxCalls
    /\ ncStore' = [ncStore EXCEPT ![p] = [id |-> s, resourceVersion |-> storeVersion[s]]]
    /\ ncPc' = [ncPc EXCEPT ![p] = "get1"]
    /\ NcReturn(p, NilClient, "nil")
    /\ calls' = [calls EXCEPT ![p] = @ + 1]
    /\ hist' = [hist EXCEPT !.ncRaced = @ \ {p}]
    /\ UNCHANGED <<storeVersion, clientCache, useMu, factoryCalls>>
    /\ UNCHANGED <<gvVars, extVars>>

\* NC_Get1 that takes whatever client the cache holds for the store
NC_Get1_AnyVersion(p) ==
    /\ ncPc[p] = "get1"
    /\ LET key == StoreKey(ncStore[p].id)
       IN IF CacheContains(clientCache, key)
          THEN /\ NcReturn(p, CacheValue(clientCache, key), "nil")
               /\ ncPc' = [ncPc EXCEPT ![p] = "done"]
          ELSE /\ ncPc' = [ncPc EXCEPT ![p] = "lock"]
               /\ UNCHANGED ncRet
    /\ UNCHANGED <<storeVersion, clientCache, useMu, ncStore, factoryCalls, calls, hist>>
    /\ UNCHANGED <<gvVars, extVars>>

\* lines 63-66: the lock-free read
NC_Get1(p) ==
    /\ ncPc[p] = "get1"
    /\ LET key == StoreKey(ncStore[p].id)
           ver == ncStore[p].resourceVersion
       IN IF CacheHit(clientCache, ver, key)
          THEN /\ NcReturn(p, CacheValue(clientCache, key), "nil")
               /\ ncPc' = [ncPc EXCEPT ![p] = "done"]
          ELSE /\ ncPc' = [ncPc EXCEPT ![p] = "lock"]
               /\ UNCHANGED ncRet
    /\ UNCHANGED <<storeVersion, clientCache, useMu, ncStore, factoryCalls, calls, hist>>
    /\ UNCHANGED <<gvVars, extVars>>

\* line 68: useMu.Lock() blocks until the mutex is free
NC_Lock(p) ==
    /\ ncPc[p] = "lock"
    /\ useMu = {}
    /\ useMu' = {p}
    /\ ncPc' = [ncPc EXCEPT ![p] = "get2"]
    /\ UNCHANGED <<storeVersion, clientCache, ncStore, ncRet, factoryCalls, calls, hist>>
    /\ UNCHANGED <<gvVars, extVars>>

\* NC_Get2 without the re-check: after the lock, straight to the factory
NC_Get2_NoRecheck(p) ==
    /\ ncPc[p] = "get2"
    /\ ncPc' = [ncPc EXCEPT ![p] = "factory"]
    /\ UNCHANGED <<storeVersion, clientCache, useMu, ncStore, ncRet, factoryCalls,
                   calls, hist>>
    /\ UNCHANGED <<gvVars, extVars>>

\* lines 71-74: the re-check under the lock (the deferred Unlock runs on return)
NC_Get2(p) ==
    /\ ncPc[p] = "get2"
    /\ LET key == StoreKey(ncStore[p].id)
           ver == ncStore[p].resourceVersion
       IN IF CacheHit(clientCache, ver, key)
          THEN /\ NcReturn(p, CacheValue(clientCache, key), "nil")
               /\ ncPc' = [ncPc EXCEPT ![p] = "done"]
               /\ useMu' = useMu \ {p}
          ELSE /\ ncPc' = [ncPc EXCEPT ![p] = "factory"]
               /\ UNCHANGED <<ncRet, useMu>>
    /\ UNCHANGED <<storeVersion, clientCache, ncStore, factoryCalls, calls, hist>>
    /\ UNCHANGED <<gvVars, extVars>>

\* NC_Factory that caches the result of NewClient whether it failed or not
NC_Factory_CachesFailure(p) ==
    /\ ncPc[p] = "factory"
    /\ LET s == ncStore[p].id
           v == ncStore[p].resourceVersion
           n == factoryCalls[<<s, v>>] + 1
       IN /\ factoryCalls' = [factoryCalls EXCEPT ![<<s, v>>] = n]
          /\ \E ok \in BOOLEAN :
               IF ok
               THEN /\ NcReturn(p, MakeClient(s, v, n), "nil")
                    /\ ncPc' = [ncPc EXCEPT ![p] = "add"]
                    /\ UNCHANGED <<useMu, hist, clientCache>>
               ELSE /\ NcReturn(p, NilClient, "NewClient failed")
                    /\ ncPc' = [ncPc EXCEPT ![p] = "done"]
                    /\ useMu' = useMu \ {p}
                    /\ clientCache' = CacheAdd(clientCache, v, StoreKey(s), NilClient)
                    /\ hist' = [hist EXCEPT !.nc = @ \cup {s}]
    /\ UNCHANGED <<storeVersion, ncStore, calls>>
    /\ UNCHANGED <<gvVars, extVars>>

\* lines 76-79: NewClient(ctx, cfg, ...) fails or builds a client
NC_Factory(p) ==
    /\ ncPc[p] = "factory"
    /\ LET s == ncStore[p].id
           v == ncStore[p].resourceVersion
           n == factoryCalls[<<s, v>>] + 1
       IN /\ factoryCalls' = [factoryCalls EXCEPT ![<<s, v>>] = n]
          /\ \E ok \in BOOLEAN :
               IF ok
               THEN /\ NcReturn(p, MakeClient(s, v, n), "nil")
                    /\ ncPc' = [ncPc EXCEPT ![p] = "add"]
                    /\ UNCHANGED <<useMu, hist>>
               ELSE /\ NcReturn(p, NilClient, "NewClient failed")
                    /\ ncPc' = [ncPc EXCEPT ![p] = "done"]
                    /\ useMu' = useMu \ {p}
                    /\ hist' = [hist EXCEPT !.nc = @ \cup {s}]
    /\ UNCHANGED <<storeVersion, clientCache, ncStore, calls>>
    /\ UNCHANGED <<gvVars, extVars>>

\* lines 81-83: clientCache.Add, return client (the deferred Unlock runs)
NC_Add(p) ==
    /\ ncPc[p] = "add"
    /\ clientCache' = CacheAdd(clientCache, ncStore[p].resourceVersion,
                               StoreKey(ncStore[p].id), ncRet[p].client)
    /\ ncPc' = [ncPc EXCEPT ![p] = "done"]
    /\ useMu' = useMu \ {p}
    /\ hist' = IF CacheContains(clientCache, StoreKey(ncStore[p].id))
               THEN [hist EXCEPT !.nc = @ \cup {ncStore[p].id}]
               ELSE hist
    /\ UNCHANGED <<storeVersion, ncStore, ncRet, factoryCalls, calls>>
    /\ UNCHANGED <<gvVars, extVars>>

\* the store object is updated in the cluster: its resourceVersion changes
StoreUpdate(s) ==
    /\ storeVersion[s] < MaxVersion
    /\ storeVersion' = [storeVersion EXCEPT ![s] = @ + 1]
    /\ UNCHANGED <<clientCache, useMu, ncPc, ncStore, ncRet, factoryCalls, calls, hist>>
    /\ UNCHANGED <<gvVars, extVars>>

\* the calls for store s that are between their two reads of the cache
NcBetweenReads(s) ==
    {p \in Procs : ncStore[p].id = s /\ ncPc[p] \in {"lock", "get2"}}

\* the bounded client cache (cache.Must(256, nil)) evicts an entry
NC_Evict(s) ==
    /\ CacheContains(clientCache, StoreKey(s))
    /\ clientCache' = CacheRemove(clientCache, StoreKey(s))
    /\ hist' = [hist EXCEPT !.nc = @ \cup {s},
                            !.ncRaced = @ \cup NcBetweenReads(s)]
    /\ UNCHANGED <<storeVersion, useMu, ncPc, ncStore, ncRet, factoryCalls, calls>>
    /\ UNCHANGED <<gvVars, extVars>>

(***************************************************************************)
(* keymutex.NewHashed(16): LockKey(id) locks mutex number                  *)
(* fnv32a(id) % 16.  The 32-bit hash is kept as two 16-bit halves.         *)
(***************************************************************************)
\* number of mutexes of the hashed key mutex
NumBuckets == 16

RECURSIVE XorBits(_, _, _)
XorBits(a, b, n) ==
    IF n = 0 THEN 0
    ELSE (((a % 2) + (b % 2)) % 2) + (2 * XorBits(a \div 2, b \div 2, n - 1))

\* one round of FNV-1a: h = (h XOR byte) * 16777619 mod 2^32
FnvStep(h, byte) ==
    LET lo  == (h.lo - (h.lo % 256)) + XorBits(h.lo % 256, byte, 8)
        mul == lo * 403
    IN [lo |-> mul % 65536,
        hi |-> ((h.hi * 403) + (mul \div 65536) + ((lo % 256) * 256)) % 65536]

RECURSIVE FnvFold(_, _)
FnvFold(h, bytes) ==
    IF bytes = <<>> THEN h ELSE FnvFold(FnvStep(h, Head(bytes)), Tail(bytes))

\* fnv.New32a over the bytes of id, offset basis 2166136261 = 0x811C9DC5
Fnv32a(id) == FnvFold([hi |-> 33052, lo |-> 40389], id)

\* the mutex LockKey(id) and UnlockKey(id) use
Bucket(id) == Fnv32a(id).lo % NumBuckets

Buckets == 0..(NumBuckets - 1)

(***************************************************************************)
(* KeyHub server: vault records, addressed by uuid (here the byte strings  *)
(* "a", "b" and "q").  Time is counted in ticks of half a second.          *)
(***************************************************************************)
UUIDs == {<<97>>, <<98>>, <<113>>}

\* time.Time.Unix(): whole seconds
Unix(t) == t \div 2

\* strconv.FormatInt(n, 10) for n >= 0, as the sequence of its digits
RECURSIVE FormatInt(_)
FormatInt(n) ==
    IF n < 10 THEN <<n>> ELSE Append(FormatInt(n \div 10), (n % 10))

\* the cache version of a record modified at t
VersionOf(t) == FormatInt(Unix(t))

\* the record GetVaultRecord returns, with its audit lastModifiedAt
VaultRecord(u, t) == [uuid |-> u, lastModifiedAt |-> t]

NilRecord == [uuid |-> <<>>, lastModifiedAt |-> 0]

NoRef == [Key |-> <<>>, Version |-> ""]

\* cache.Key{Name: uuid, Namespace: "", Kind: ""}
RecordKey(u) == [Name |-> u, Namespace |-> "", Kind |-> ""]

NewLog == [chk1 |-> "none", chk2 |-> "none", locked |-> FALSE,
           fetched |-> FALSE, wrote |-> FALSE, raced |-> FALSE, start |-> 0]

(***************************************************************************)
(* client.getVaultRecord (part_001:137-189)                                *)
(***************************************************************************)
GvReturn(p, r, e) == gvRet' = [gvRet EXCEPT ![p] = [record |-> r, err |-> e]]

GvGoto(p, pc) == gvPc' = [gvPc EXCEPT ![p] = pc]

GvNote(p, field, val) == gvLog' = [gvLog EXCEPT ![p][field] = val]

\* the deferred c.useMu.UnlockKey(ref.Key)
GvUnlock(p) ==
    kmHolder' = [kmHolder EXCEPT ![Bucket(gvRef[p].Key)] = @ \ {p}]

\* a call that does not look at ref.Version
GV_Begin_IgnoresVersion(p, u, ver) ==
    /\ ncPc[p] \in {"idle", "done"}
    /\ gvPc[p] \in {"idle", "done"}
    /\ calls[p] < MaxCalls
    /\ calls' = [calls EXCEPT ![p] = @ + 1]
    /\ gvRef' = [gvRef EXCEPT ![p] = [Key |-> u, Version |-> ver]]
    /\ GvGoto(p, "contains1")
    /\ GvReturn(p, NilRecord, "nil")
    /\ gvLog' = [gvLog EXCEPT ![p] = [NewLog EXCEPT !.start = remote[u]]]
    /\ gvTok' = [gvTok EXCEPT ![p] = 0]
    /\ UNCHANGED <<remote, recordCache, kmHolder, fetchCalls, hist>>
    /\ UNCHANGED <<ncVars, extVars>>

\* lines 138-146: a ref with a Version is refused
GV_Begin(p, u, ver) ==
    /\ ncPc[p] \in {"idle", "done"}
    /\ gvPc[p] \in {"idle", "done"}
    /\ calls[p] < MaxCalls
    /\ calls' = [calls EXCEPT ![p] = @ + 1]
    /\ gvRef' = [gvRef EXCEPT ![p] = [Key |-> u, Version |-> ver]]
    /\ IF ver # ""
       THEN /\ GvGoto(p, "done")
            /\ GvReturn(p, NilRecord, "version not supported")
       ELSE /\ GvGoto(p, "contains1")
            /\ GvReturn(p, NilRecord, "nil")
    /\ gvLog' = [gvLog EXCEPT ![p] = IF ver # "" THEN NewLog
                                     ELSE [NewLog EXCEPT !.start = remote[u]]]
    /\ gvTok' = [gvTok EXCEPT ![p] = 0]
    /\ UNCHANGED <<remote, recordCache, kmHolder, fetchCalls, hist>>
    /\ UNCHANGED <<ncVars, extVars>>

\* lines 149-150: ok := c.recordCache.Contains(key)
GV_Contains1(p) ==
    /\ gvPc[p] = "contains1"
    /\ IF CacheContains(recordCache, RecordKey(gvRef[p].Key))
       THEN GvGoto(p, "probe1") /\ GvNote(p, "chk1", "present")
       ELSE GvGoto(p, "lock") /\ GvNote(p, "chk1", "absent")
    /\ UNCHANGED <<remote, recordCache, kmHolder, gvRef, gvTok, gvRet,
                   fetchCalls, calls, hist>>
    /\ UNCHANGED <<ncVars, extVars>>

\* lines 151-154: GetVaultRecordLastModifiedAt, NoSecretErr on any failure
GV_Probe1(p) ==
    /\ gvPc[p] = "probe1"
    /\ \E ok \in BOOLEAN :
         IF ok
         THEN /\ gvTok' = [gvTok EXCEPT ![p] = remote[gvRef[p].Key]]
              /\ GvGoto(p, "get1")
              /\ GvNote(p, "chk1", "probed")
              /\ UNCHANGED gvRet
         ELSE /\ GvReturn(p, NilRecord, "NoSecretErr")
              /\ GvGoto(p, "done")
              /\ UNCHANGED <<gvTok, gvLog>>
    /\ UNCHANGED <<remote, recordCache, kmHolder, gvRef, fetchCalls, calls, hist>>
    /\ UNCHANGED <<ncVars, extVars>>

\* GV_Get1 that takes whatever the cache holds for the key, any version
GV_Get1_AnyVersion(p) ==
    /\ gvPc[p] = "get1"
    /\ LET key == RecordKey(gvRef[p].Key)
       IN IF CacheContains(recordCache, key)
          THEN /\ GvReturn(p, CacheValue(recordCache, key), "nil")
               /\ GvGoto(p, "done")
               /\ GvNote(p, "chk1", "hit")
          ELSE /\ GvGoto(p, "lock")
               /\ GvNote(p, "chk1", "miss")
               /\ UNCHANGED gvRet
    /\ UNCHANGED <<remote, recordCache, kmHolder, gvRef, gvTok, fetchCalls,
                   calls, hist>>
    /\ UNCHANGED <<ncVars, extVars>>

\* lines 157-160: recordCache.Get(FormatInt(lastModifiedAt.Unix()), key)
GV_Get1(p) ==
    /\ gvPc[p] = "get1"
    /\ LET key == RecordKey(gvRef[p].Key)
       IN IF CacheHit(recordCache, VersionOf(gvTok[p]), key)
          THEN /\ GvReturn(p, CacheValue(recordCache, key), "nil")
               /\ GvGoto(p, "done")
               /\ GvNote(p, "chk1", "hit")
          ELSE /\ GvGoto(p, "lock")
               /\ GvNote(p, "chk1", "miss")
               /\ UNCHANGED gvRet
    /\ UNCHANGED <<remote, recordCache, kmHolder, gvRef, gvTok, fetchCalls,
                   calls, hist>>
    /\ UNCHANGED <<ncVars, extVars>>

\* GV_Lock on one mutex for every key (as useMu of the client cache)
GV_Lock_Global(p) ==
    /\ gvPc[p] = "lock"
    /\ kmHolder[0] = {}
    /\ kmHolder' = [kmHolder EXCEPT ![0] = {p}]
    /\ GvGoto(p, "contains2")
    /\ GvNote(p, "locked", TRUE)
    /\ UNCHANGED <<remote, recordCache, gvRef, gvTok, gvRet, fetchCalls,
                   calls, hist>>
    /\ UNCHANGED <<ncVars, extVars>>

\* line 163: c.useMu.LockKey(ref.Key) blocks until the key's mutex is free
GV_Lock(p) ==
    /\ gvPc[p] = "lock"
    /\ kmHolder[Bucket(gvRef[p].Key)] = {}
    /\ kmHolder' = [kmHolder EXCEPT ![Bucket(gvRef[p].Key)] = {p}]
    /\ GvGoto(p, "contains2")
    /\ GvNote(p, "locked", TRUE)
    /\ UNCHANGED <<remote, recordCache, gvRef, gvTok, gvRet, fetchCalls,
                   calls, hist>>
    /\ UNCHANGED <<ncVars, extVars>>

\* GV_Contains2 without the re-check: after the lock, straight to the fetch
GV_Contains2_NoRecheck(p) ==
    /\ gvPc[p] = "contains2"
    /\ GvGoto(p, "fetch")
    /\ GvNote(p, "chk2", "absent")
    /\ UNCHANGED <<remote, recordCache, kmHolder, gvRef, gvTok, gvRet,
                   fetchCalls, calls, hist>>
    /\ UNCHANGED <<ncVars, extVars>>

\* lines 168-169: the second Contains, under the lock
GV_Contains2(p) ==
    /\ gvPc[p] = "contains2"
    /\ IF CacheContains(recordCache, RecordKey(gvRef[p].Key))
       THEN GvGoto(p, "probe2") /\ GvNote(p, "chk2", "present")
       ELSE GvGoto(p, "fetch") /\ GvNote(p, "chk2", "absent")
    /\ UNCHANGED <<remote, recordCache, kmHolder, gvRef, gvTok, gvRet,
                   fetchCalls, calls, hist>>
    /\ UNCHANGED <<ncVars, extVars>>

\* GV_Probe2 that, having the token, fetches without the second Get
GV_Probe2_SkipGet(p) ==
    /\ gvPc[p] = "probe2"
    /\ \E ok \in BOOLEAN :
         IF ok
         THEN /\ gvTok' = [gvTok EXCEPT ![p] = remote[gvRef[p].Key]]
              /\ GvGoto(p, "fetch")
              /\ GvNote(p, "chk2", "probed")
              /\ UNCHANGED <<gvRet, kmHolder>>
         ELSE /\ GvReturn(p, NilRecord, "NoSecretErr")
              /\ GvGoto(p, "done")
              /\ GvUnlock(p)
              /\ UNCHANGED <<gvTok, gvLog>>
    /\ UNCHANGED <<remote, recordCache, gvRef, fetchCalls, calls, hist>>
    /\ UNCHANGED <<ncVars, extVars>>

\* lines 170-173: the second probe; on failure the deferred unlock runs
GV_Probe2(p) ==
    /\ gvPc[p] = "probe2"
    /\ \E ok \in BOOLEAN :
         IF ok
         THEN /\ gvTok' = [gvTok EXCEPT ![p] = remote[gvRef[p].Key]]
              /\ GvGoto(p, "get2")
              /\ GvNote(p, "chk2", "probed")
              /\ UNCHANGED <<gvRet, kmHolder>>
         ELSE /\ GvReturn(p, NilRecord, "NoSecretErr")
              /\ GvGoto(p, "done")
              /\ GvUnlock(p)
              /\ UNCHANGED <<gvTok, gvLog>>
    /\ UNCHANGED <<remote, recordCache, gvRef, fetchCalls, calls, hist>>
    /\ UNCHANGED <<ncVars, extVars>>

\* GV_Get2 that takes the Contains of line 168 as a promise that Get finds
\* the entry: an absent entry is returned as the (nil) record, without error
GV_Get2_TrustsContains(p) ==
    /\ gvPc[p] = "get2"
    /\ LET key == RecordKey(gvRef[p].Key)
       IN IF ~CacheContains(recordCache, key)
          THEN /\ GvReturn(p, NilRecord, "nil")
               /\ GvGoto(p, "done")
               /\ GvNote(p, "chk2", "hit")
               /\ GvUnlock(p)
          ELSE IF CacheHit(recordCache, VersionOf(gvTok[p]), key)
          THEN /\ GvReturn(p, CacheValue(recordCache, key), "nil")
               /\ GvGoto(p, "done")
               /\ GvNote(p, "chk2", "hit")
               /\ GvUnlock(p)
          ELSE /\ GvGoto(p, "fetch")
               /\ GvNote(p, "chk2", "miss")
               /\ UNCHANGED <<gvRet, kmHolder>>
    /\ UNCHANGED <<remote, recordCache, gvRef, gvTok, fetchCalls, calls, hist>>
    /\ UNCHANGED <<ncVars, extVars>>

\* lines 176-179: the second Get, under the lock
GV_Get2(p) ==
    /\ gvPc[p] = "get2"
    /\ LET key == RecordKey(gvRef[p].Key)
       IN IF CacheHit(recordCache, VersionOf(gvTok[p]), key)
          THEN /\ GvReturn(p, CacheValue(recordCache, key), "nil")
               /\ GvGoto(p, "done")
               /\ GvNote(p, "chk2", "hit")
               /\ GvUnlock(p)
          ELSE /\ GvGoto(p, "fetch")
               /\ GvNote(p, "chk2", "miss")
               /\ UNCHANGED <<gvRet, kmHolder>>
    /\ UNCHANGED <<remote, recordCache, gvRef, gvTok, fetchCalls, calls, hist>>
    /\ UNCHANGED <<ncVars, extVars>>

\* GV_Fetch that returns the error without unlocking the key
GV_Fetch_LeaksLock(p) ==
    /\ gvPc[p] = "fetch"
    /\ LET u == gvRef[p].Key
       IN /\ fetchCalls' = [fetchCalls EXCEPT ![u] = @ + 1]
          /\ GvNote(p, "fetched", TRUE)
          /\ \E ok \in BOOLEAN :
               IF ok
               THEN /\ GvReturn(p, VaultRecord(u, remote[u]), "nil")
                    /\ GvGoto(p, "add")
                    /\ UNCHANGED <<kmHolder, hist>>
               ELSE /\ GvReturn(p, NilRecord, "NoSecretErr")
                    /\ GvGoto(p, "done")
                    /\ UNCHANGED kmHolder
                    /\ hist' = [hist EXCEPT !.gv = @ \cup {u}]
    /\ UNCHANGED <<remote, recordCache, gvRef, gvTok, calls>>
    /\ UNCHANGED <<ncVars, extVars>>

\* lines 182-185: the expensive c.client.GetVaultRecord(ctx, ref.Key)
GV_Fetch(p) ==
    /\ gvPc[p] = "fetch"
    /\ LET u == gvRef[p].Key
       IN /\ fetchCalls' = [fetchCalls EXCEPT ![u] = @ + 1]
          /\ GvNote(p, "fetched", TRUE)
          /\ \E ok \in BOOLEAN :
               IF ok
               THEN /\ GvReturn(p, VaultRecord(u, remote[u]), "nil")
                    /\ GvGoto(p, "add")
                    /\ UNCHANGED <<kmHolder, hist>>
               ELSE /\ GvReturn(p, NilRecord, "NoSecretErr")
                    /\ GvGoto(p, "done")
                    /\ GvUnlock(p)
                    /\ hist' = [hist EXCEPT !.gv = @ \cup {u}]
    /\ UNCHANGED <<remote, recordCache, gvRef, gvTok, calls>>
    /\ UNCHANGED <<ncVars, extVars>>

\* GV_Add that returns the record without the deferred UnlockKey
GV_Add_KeepsLock(p) ==
    /\ gvPc[p] = "add"
    /\ recordCache' = CacheAdd(recordCache, VersionOf(gvRet[p].record.lastModifiedAt),
                               RecordKey(gvRef[p].Key), gvRet[p].record)
    /\ GvGoto(p, "done")
    /\ GvNote(p, "wrote", TRUE)
    /\ UNCHANGED <<remote, kmHolder, gvRef, gvTok, gvRet, fetchCalls, calls, hist>>
    /\ UNCHANGED <<ncVars, extVars>>

\* lines 186-188: recordCache.Add under the record's own version, return it
GV_Add(p) ==
    /\ gvPc[p] = "add"
    /\ recordCache' = CacheAdd(recordCache, VersionOf(gvRet[p].record.lastModifiedAt),
                               RecordKey(gvRef[p].Key), gvRet[p].record)
    /\ GvGoto(p, "done")
    /\ GvNote(p, "wrote", TRUE)
    /\ GvUnlock(p)
    /\ UNCHANGED <<remote, gvRef, gvTok, gvRet, fetchCalls, calls, hist>>
    /\ UNCHANGED <<ncVars, extVars>>

RECURSIVE SumOver(_, _)
SumOver(f, S) ==
    IF S = {} THEN 0
    ELSE LET x == CHOOSE y \in S : TRUE IN f[x] + SumOver(f, S \ {x})

\* modifications made so far
TicksSpent == SumOver(remote, UUIDs) - (StartTicks * Cardinality(UUIDs))

\* somebody modifies the vault record in KeyHub
RemoteModify(u) ==
    /\ TicksSpent < MaxTicks
    /\ remote' = [remote EXCEPT ![u] = @ + 1]
    /\ UNCHANGED <<recordCache, kmHolder, gvPc, gvRef, gvTok, gvRet, gvLog,
                   fetchCalls, calls, hist>>
    /\ UNCHANGED <<ncVars, extVars>>

\* somebody modifies the vault record in KeyHub, again within the second
RemoteWrite(u) ==
    /\ TicksSpent < MaxRecordWrites
    /\ remote' = [remote EXCEPT ![u] = @ + 1]
    /\ UNCHANGED <<recordCache, kmHolder, gvPc, gvRef, gvTok, gvRet, gvLog,
                   fetchCalls, calls, hist>>
    /\ UNCHANGED <<ncVars, extVars>>

\* the calls that have seen key u in the cache and have not yet read it
GvBetweenChecks(u) ==
    {p \in Procs : gvRef[p].Key = u /\ gvPc[p] \in {"probe1", "get1", "probe2", "get2"}}

\* the bounded record cache (cache.Must(2048, nil)) evicts an entry
GV_Evict(u) ==
    /\ CacheContains(recordCache, RecordKey(u))
    /\ recordCache' = CacheRemove(recordCache, RecordKey(u))
    /\ hist' = [hist EXCEPT !.gv = @ \cup {u}]
    /\ gvLog' = [p \in Procs |->
                   IF p \in GvBetweenChecks(u)
                   THEN [gvLog[p] EXCEPT !.raced = TRUE] ELSE gvLog[p]]
    /\ UNCHANGED <<remote, kmHolder, gvPc, gvRef, gvTok, gvRet, fetchCalls, calls>>
    /\ UNCHANGED <<ncVars, extVars>>

(***************************************************************************)
(* The push/ownership protocol: Push, Delete and Exists of a backend       *)
(* client over the four primitives read, create, update and delete.  An    *)
(* object this system created carries the tag managed-by with the value    *)
(* external-secrets.  One client issues its calls one after the other;     *)
(* other systems write to the backend in between.                          *)
(***************************************************************************)
\* value of the managed-by tag on the objects of this system
ManagerLabel == "external-secrets"

\* values of the managed-by tag: absent, ours, somebody else's
Markers == {"", ManagerLabel, "nope"}

\* remote keys as path segments: "example-1", "key/keyname",
\* "cert/certname", "yadayada/foo"
RemoteKeys == {<<"example-1">>, <<"key", "keyname">>, <<"cert", "certname">>,
               <<"yadayada", "foo">>}

SupportedTypes == {"secret", "key", "cert"}

\* the object type a remote key names: its prefix, secret when it has none
ObjType(k) == IF Len(k) = 1 THEN "secret" ELSE k[1]

\* values and metadata (expiry) a caller pushes
PushValues == {1, 2}

PushMetas == {0, 1}

NoObject == [present |-> FALSE, value |-> 0, meta |-> 0, marker |-> ""]

RemoteObject(v, m, mk) == [present |-> TRUE, value |-> v, meta |-> m, marker |-> mk]

NoRequest == [op |-> "none", key |-> <<>>, value |-> 0, meta |-> 0]

NoRead == [status |-> "none", obj |-> NoObject]

\* the backend read primitive: the object, NotFound, or another failure
BackendRead(k) ==
    {IF vault[k].present THEN [status |-> "found", obj |-> vault[k]]
                         ELSE [status |-> "notfound", obj |-> NoObject]}
    \cup (IF psFaults < MaxFaults THEN {[status |-> "error", obj |-> NoObject]}
                                  ELSE {})

\* the outcomes of a backend write primitive: it succeeds or it fails
BackendWrite == {TRUE} \cup (IF psFaults < MaxFaults THEN {FALSE} ELSE {})

\* the object carries this system's ownership marker
Owned(obj) == obj.marker = ManagerLabel

\* Unchanged that never finds the object up to date: every Push writes
Unchanged_Never(obj, req) == FALSE

\* the object already holds the value and metadata of the request
Unchanged(obj, req) == obj.value = req.value /\ obj.meta = req.meta

\* PushDecision that does not look at the marker of the object it found
PushDecision_IgnoresMarker(r, req) ==
    CASE r.status = "error"    -> "readfailed"
      [] r.status = "notfound" -> "create"
      [] r.status = "found" /\ Unchanged(r.obj, req) -> "noop"
      [] OTHER -> "update"

\* Push: absent => create; present with the marker absent or mismatched =>
\* NotManaged; present, owned and unchanged => no-op; otherwise update
PushDecision(r, req) ==
    CASE r.status = "error"    -> "readfailed"
      [] r.status = "notfound" -> "create"
      [] r.status = "found" /\ ~Owned(r.obj) -> "notmanaged"
      [] r.status = "found" /\ Owned(r.obj) /\ Unchanged(r.obj, req) -> "noop"
      [] OTHER -> "update"

\* DeleteDecision that reports an absent object as a failure
DeleteDecision_AbsentIsError(r) ==
    CASE r.status = "error"    -> "readfailed"
      [] r.status = "notfound" -> "readfailed"
      [] r.status = "found" /\ ~Owned(r.obj) -> "notmanaged"
      [] OTHER -> "delete"

\* Delete: absent => success; marker absent or mismatched => NotManaged;
\* present and owned => delete
DeleteDecision(r) ==
    CASE r.status = "error"    -> "readfailed"
      [] r.status = "notfound" -> "noop"
      [] r.status = "found" /\ ~Owned(r.obj) -> "notmanaged"
      [] OTHER -> "delete"

\* ExistsDecision that takes every failed read for an absent object
ExistsDecision_ErrorIsAbsent(r) ==
    CASE r.status = "found" -> "present"
      [] OTHER -> "absent"

\* Exists: NotFound => false; another read error propagates; otherwise
\* true, whatever the marker
ExistsDecision(r) ==
    CASE r.status = "error"    -> "readfailed"
      [] r.status = "notfound" -> "absent"
      [] OTHER -> "present"

\* the error a call returns when it ends without a backend write
DecisionError(d) ==
    CASE d = "readfailed" -> "unexpected api error"
      [] d = "notmanaged" -> "not managed by external-secrets"
      [] OTHER -> "nil"

\* the call returns: its result is set and it joins the finished calls
PsFinish(req, r, wrote, exists, err) ==
    /\ psPc' = "done"
    /\ psRet' = [exists |-> exists, err |-> err]
    /\ psWrote' = wrote
    /\ psTrace' = Append(psTrace, [req |-> req, read |-> r, wrote |-> wrote,
                                   exists |-> exists, err |-> err])

\* a call is made; a key of an unsupported object type is refused at once
PS_Begin(op, k, v, m) ==
    /\ psPc \in {"idle", "done"}
    /\ Len(psTrace) < MaxOps
    /\ LET req == [op |-> op, key |-> k, value |-> v, meta |-> m]
       IN /\ psOp' = req
          /\ psRead' = NoRead
          /\ IF ObjType(k) \notin SupportedTypes
             THEN PsFinish(req, NoRead, "none", FALSE, "secret type is not supported")
             ELSE /\ psPc' = "read"
                  /\ psRet' = [exists |-> FALSE, err |-> "nil"]
                  /\ psWrote' = "none"
                  /\ UNCHANGED psTrace
    /\ UNCHANGED <<vault, psFaults>>
    /\ UNCHANGED nonPsVars

\* Exists(ref): one read, no write
PS_Exists ==
    /\ psPc = "read" /\ psOp.op = "exists"
    /\ \E r \in BackendRead(psOp.key) :
         /\ psRead' = r
         /\ psFaults' = IF r.status = "error" THEN psFaults + 1 ELSE psFaults
         /\ LET d == ExistsDecision(r)
            IN PsFinish(psOp, r, "none", d = "present", DecisionError(d))
    /\ UNCHANGED <<vault, psOp>>
    /\ UNCHANGED nonPsVars

\* Push(ref, value, metadata): read the current state and decide
PS_PushRead ==
    /\ psPc = "read" /\ psOp.op = "push"
    /\ \E r \in BackendRead(psOp.key) :
         /\ psRead' = r
         /\ psFaults' = IF r.status = "error" THEN psFaults + 1 ELSE psFaults
         /\ LET d == PushDecision(r, psOp)
            IN IF d \in {"create", "update"}
               THEN /\ psPc' = d
                    /\ UNCHANGED <<psRet, psWrote, psTrace>>
               ELSE PsFinish(psOp, r, "none", FALSE, DecisionError(d))
    /\ UNCHANGED <<vault, psOp>>
    /\ UNCHANGED nonPsVars

\* PS_Create that creates the object without the managed-by tag
PS_Create_NoMarker ==
    /\ psPc = "create"
    /\ \E ok \in BackendWrite :
         IF ok
         THEN /\ vault' = [vault EXCEPT ![psOp.key] =
                              RemoteObject(psOp.value, psOp.meta, "")]
              /\ PsFinish(psOp, psRead, "create", FALSE, "nil")
              /\ UNCHANGED psFaults
         ELSE /\ PsFinish(psOp, psRead, "create", FALSE, "could not set secret")
              /\ psFaults' = psFaults + 1
              /\ UNCHANGED vault
    /\ UNCHANGED <<psOp, psRead>>
    /\ UNCHANGED nonPsVars

\* Push, absent: create the object, stamping the ownership marker
PS_Create ==
    /\ psPc = "create"
    /\ \E ok \in BackendWrite :
         IF ok
         THEN /\ vault' = [vault EXCEPT ![psOp.key] =
                              RemoteObject(psOp.value, psOp.meta, ManagerLabel)]
              /\ PsFinish(psOp, psRead, "create", FALSE, "nil")
              /\ UNCHANGED psFaults
         ELSE /\ PsFinish(psOp, psRead, "create", FALSE, "could not set secret")
              /\ psFaults' = psFaults + 1
              /\ UNCHANGED vault
    /\ UNCHANGED <<psOp, psRead>>
    /\ UNCHANGED nonPsVars

\* Push, present, owned and changed: update, preserving the marker
PS_Update ==
    /\ psPc = "update"
    /\ \E ok \in BackendWrite :
         IF ok
         THEN /\ vault' = [vault EXCEPT ![psOp.key] =
                              RemoteObject(psOp.value, psOp.meta, psRead.obj.marker)]
              /\ PsFinish(psOp, psRead, "update", FALSE, "nil")
              /\ UNCHANGED psFaults
         ELSE /\ PsFinish(psOp, psRead, "update", FALSE, "could not set secret")
              /\ psFaults' = psFaults + 1
              /\ UNCHANGED vault
    /\ UNCHANGED <<psOp, psRead>>
    /\ UNCHANGED nonPsVars

\* PS_DeleteRead that goes on to the backend delete after a failed read
PS_DeleteRead_DeletesOnError ==
    /\ psPc = "read" /\ psOp.op = "delete"
    /\ \E r \in BackendRead(psOp.key) :
         /\ psRead' = r
         /\ psFaults' = IF r.status = "error" THEN psFaults + 1 ELSE psFaults
         /\ LET d == DeleteDecision(r)
            IN IF d \in {"delete", "readfailed"}
               THEN /\ psPc' = "delete"
                    /\ UNCHANGED <<psRet, psWrote, psTrace>>
               ELSE PsFinish(psOp, r, "none", FALSE, DecisionError(d))
    /\ UNCHANGED <<vault, psOp>>
    /\ UNCHANGED nonPsVars

\* Delete(ref): read the current state and decide
PS_DeleteRead ==
    /\ psPc = "read" /\ psOp.op = "delete"
    /\ \E r \in BackendRead(psOp.key) :
         /\ psRead' = r
         /\ psFaults' = IF r.status = "error" THEN psFaults + 1 ELSE psFaults
         /\ LET d == DeleteDecision(r)
            IN IF d = "delete"
               THEN /\ psPc' = d
                    /\ UNCHANGED <<psRet, psWrote, psTrace>>
               ELSE PsFinish(psOp, r, "none", FALSE, DecisionError(d))
    /\ UNCHANGED <<vault, psOp>>
    /\ UNCHANGED nonPsVars

\* Delete, present and owned: the backend delete, whose result is returned
PS_Delete ==
    /\ psPc = "delete"
    /\ \E ok \in BackendWrite :
         IF ok
         THEN /\ vault' = [vault EXCEPT ![psOp.key] = NoObject]
              /\ PsFinish(psOp, psRead, "delete", FALSE, "nil")
              /\ UNCHANGED psFaults
         ELSE /\ PsFinish(psOp, psRead, "delete", FALSE, "No Permissions")
              /\ psFaults' = psFaults + 1
              /\ UNCHANGED vault
    /\ UNCHANGED <<psOp, psRead>>
    /\ UNCHANGED nonPsVars

\* another system writes an object of its own under the key
PS_Foreign(k, v, mk) ==
    /\ psFaults < MaxFaults
    /\ ObjType(k) \in SupportedTypes
    /\ mk # ManagerLabel
    /\ vault' = [vault EXCEPT ![k] = RemoteObject(v, 0, mk)]
    /\ psFaults' = psFaults + 1
    /\ UNCHANGED <<psPc, psOp, psRead, psRet, psWrote, psTrace>>
    /\ UNCHANGED nonPsVars

(***************************************************************************)
(* The table-driven tests of the Azure Key Vault client                    *)
(* (keyvault_test.go): what the mock backend returns to the read, whether  *)
(* its write or delete succeeds, and the result the test expects           *)
(* ("nil", "notmanaged" or another "error").                               *)
(***************************************************************************)
SecretName == <<"example-1">>

KeyName == <<"key", "keyname">>

CertName == <<"cert", "certname">>

MockFound(v, m, mk) == [status |-> "found", obj |-> RemoteObject(v, m, mk)]

MockNotFound == [status |-> "notfound", obj |-> NoObject]

MockError == [status |-> "error", obj |-> NoObject]

TestCase(op, k, v, m, r, writeOk, want, exists) ==
    [req |-> [op |-> op, key |-> k, value |-> v, meta |-> m], read |-> r,
     writeOk |-> writeOk, want |-> want, exists |-> exists]

\* TestAzureKeyVaultDeleteSecret
KeyvaultDeleteTests ==
    {TestCase("delete", <<"yadayada", "foo">>, 0, 0, MockFound(1, 0, ""), TRUE, "error", FALSE)}
    \cup UNION {
      {TestCase("delete", k, 0, 0, MockFound(1, 0, ManagerLabel), TRUE, "nil", FALSE),
       TestCase("delete", k, 0, 0, MockNotFound, FALSE, "nil", FALSE),
       TestCase("delete", k, 0, 0, MockFound(1, 0, ""), FALSE, "notmanaged", FALSE),
       TestCase("delete", k, 0, 0, MockError, TRUE, "error", FALSE),
       TestCase("delete", k, 0, 0, MockFound(1, 0, ManagerLabel), FALSE, "error", FALSE)}
      : k \in {SecretName, CertName, KeyName}}

\* TestAzureKeyVaultPushSecret
KeyvaultPushTests ==
    {TestCase("push", <<"badtype", "secret">>, 1, 0, MockFound(1, 0, ""), TRUE, "error", FALSE),
     \* secretSuccess, secretNoChange, secretExpiryChange
     TestCase("push", SecretName, 2, 0, MockFound(1, 0, ManagerLabel), TRUE, "nil", FALSE),
     TestCase("push", SecretName, 1, 0, MockFound(1, 0, ManagerLabel), TRUE, "nil", FALSE),
     TestCase("push", SecretName, 1, 1, MockFound(1, 0, ManagerLabel), TRUE, "nil", FALSE),
     \* secretWrongTags, secretNoTags
     TestCase("push", SecretName, 1, 0, MockFound(1, 0, "nope"), TRUE, "notmanaged", FALSE),
     TestCase("push", SecretName, 1, 0, MockFound(1, 0, ""), TRUE, "notmanaged", FALSE),
     \* secretNotFound, failedGetSecret, failedSetSecret
     TestCase("push", SecretName, 1, 0, MockNotFound, TRUE, "nil", FALSE),
     TestCase("push", SecretName, 1, 0, MockError, TRUE, "error", FALSE),
     TestCase("push", SecretName, 1, 0, MockNotFound, FALSE, "error", FALSE),
     \* certImportCertificateError, certFingerprintMatches
     TestCase("push", CertName, 2, 0, MockFound(1, 0, ManagerLabel), FALSE, "error", FALSE),
     TestCase("push", CertName, 1, 0, MockFound(1, 0, ManagerLabel), FALSE, "nil", FALSE),
     \* certNotManagedByES, certNoManagerTags, certNoPermissions
     TestCase("push", CertName, 2, 0, MockFound(1, 0, "nope"), TRUE, "notmanaged", FALSE),
     TestCase("push", CertName, 2, 0, MockFound(1, 0, ""), TRUE, "notmanaged", FALSE),
     TestCase("push", CertName, 2, 0, MockError, TRUE, "error", FALSE),
     \* keySuccess, errorGetKey, keyNotFound, importKeyFailed, noTags, wrongTags
     TestCase("push", KeyName, 2, 0, MockFound(1, 0, ManagerLabel), TRUE, "nil", FALSE),
     TestCase("push", KeyName, 2, 0, MockError, TRUE, "error", FALSE),
     TestCase("push", KeyName, 2, 0, MockNotFound, TRUE, "nil", FALSE),
     TestCase("push", KeyName, 2, 0, MockNotFound, FALSE, "error", FALSE),
     TestCase("push", KeyName, 2, 0, MockFound(1, 0, ""), TRUE, "notmanaged", FALSE),
     TestCase("push", KeyName, 2, 0, MockFound(1, 0, "nope"), TRUE, "notmanaged", FALSE)}

\* TestAzureKeyVaultSecretExists
KeyvaultExistsTests ==
    {TestCase("exists", <<"yadayada", "foo">>, 0, 0, MockFound(1, 0, ""), TRUE, "error", FALSE),
     TestCase("exists", SecretName, 0, 0, MockFound(1, 0, ManagerLabel), TRUE, "nil", TRUE),
     TestCase("exists", SecretName, 0, 0, MockFound(1, 0, ""), TRUE, "nil", TRUE),
     TestCase("exists", SecretName, 0, 0, MockNotFound, TRUE, "nil", FALSE)}

\* the kind of result a call returns
ErrorClass(err) ==
    CASE err = "nil" -> "nil"
      [] err = "not managed by external-secrets" -> "notmanaged"
      [] OTHER -> "error"

\* the result of the protocol on the mock backend of a test case
TestOutcome(t) ==
    LET d == CASE t.req.op = "push"   -> PushDecision(t.read, t.req)
               [] t.req.op = "delete" -> DeleteDecision(t.read)
               [] OTHER               -> ExistsDecision(t.read)
    IN IF ObjType(t.req.key) \notin SupportedTypes
       THEN [err |-> "error", exists |-> FALSE]
       ELSE IF d \in {"create", "update", "delete"}
       THEN [err |-> IF t.writeOk THEN "nil" ELSE "error", exists |-> FALSE]
       ELSE [err |-> ErrorClass(DecisionError(d)), exists |-> d = "present"]

\* the protocol returns what every test case expects
KeyvaultTestsAgree ==
    \A t \in KeyvaultDeleteTests \cup KeyvaultPushTests \cup KeyvaultExistsTests :
        TestOutcome(t) = [err |-> t.want, exists |-> t.exists]

(***************************************************************************)
(* Write operations on the clients of the KeyHub provider (part_001) and   *)
(* of the Webhook provider (part_003), both of which declare ReadOnly.     *)
(***************************************************************************)
\* Provider.Capabilities() of the two providers
Capabilities(provider) ==
    CASE provider = "keyhub"  -> "ReadOnly"
      [] provider = "webhook" -> "ReadOnly"

\* the call returns: it joins the finished calls
WrFinish(provider, op, err, sent) ==
    /\ Len(wrTrace) < MaxWrites
    /\ wrTrace' = Append(wrTrace, [provider |-> provider, op |-> op,
                                   err |-> err, sent |-> sent])
    /\ wrSent' = IF sent THEN wrSent + 1 ELSE wrSent
    /\ UNCHANGED nonWrVars

\* keyhub client.PushSecret
KeyHub_PushSecret == WrFinish("keyhub", "PushSecret", "not implemented", FALSE)

\* keyhub client.DeleteSecret
KeyHub_DeleteSecret == WrFinish("keyhub", "DeleteSecret", "not implemented", FALSE)

\* WebHook.DeleteSecret
WebHook_DeleteSecret == WrFinish("webhook", "DeleteSecret", "not implemented", FALSE)

\* WebHook.PushSecret: the remote key, the store's webhook spec, the value
\* taken from the secret, then the request to the webhook
WebHook_PushSecret(remoteKey, storeOk, valueOk, pushOk) ==
    CASE remoteKey = "" ->
           WrFinish("webhook", "PushSecret", "remote key must be defined", FALSE)
      [] remoteKey # "" /\ ~storeOk ->
           WrFinish("webhook", "PushSecret", "failed to get store", FALSE)
      [] remoteKey # "" /\ storeOk /\ ~valueOk ->
           WrFinish("webhook", "PushSecret", "failed to extract secret data", FALSE)
      [] remoteKey # "" /\ storeOk /\ valueOk /\ ~pushOk ->
           WrFinish("webhook", "PushSecret", "failed to push webhook data", TRUE)
      [] OTHER ->
           WrFinish("webhook", "PushSecret", "nil", TRUE)

(***************************************************************************)
(* The ExternalSecret admission validator (externalsecret_validator.go).   *)
(* An error is the sequence of the messages joined by errors.Join; nil is  *)
(* the empty sequence.                                                     *)
(***************************************************************************)
DeletionPolicies == {"Delete", "Merge", "Retain"}

\* creationPolicy is a string; the validator names Merge and None
CreationPolicies == {"Owner", "Orphan", "Merge", "None"}

SecretKeys == {"a", "b"}

\* spec.dataFrom[].sourceRef: nil (set = FALSE) or its two pointers
SourceRefs ==
    {[set |-> FALSE, generatorRef |-> FALSE, storeRef |-> FALSE]}
    \cup [set : {TRUE}, generatorRef : BOOLEAN, storeRef : BOOLEAN]

\* spec.dataFrom[]: which of Extract, Find are non-nil, and SourceRef
DataFromRefs == [extract : BOOLEAN, find : BOOLEAN, sourceRef : SourceRefs]

SeqsUpTo(S, n) == UNION {[1..k -> S] : k \in 0..n}

ExternalSecrets ==
    [kind : {"ExternalSecret"},
     deletionPolicy : DeletionPolicies,
     creationPolicy : CreationPolicies,
     data : SeqsUpTo(SecretKeys, MaxData),
     dataFrom : SeqsUpTo(DataFromRefs, MaxDataFrom)]

NoExternalSecret ==
    [kind |-> "none", deletionPolicy |-> "Retain", creationPolicy |-> "Owner",
     data |-> <<>>, dataFrom |-> <<>>]

\* a runtime.Object that is not an *ExternalSecret
OtherObject == [NoExternalSecret EXCEPT !.kind = "SecretStore"]

ErrUnexpectedType == "unexpected type"

ErrDeleteNotOwner == "deletionPolicy=Delete must not be used when the controller doesn't own the secret. Please set creationPolicy=Owner"

ErrMergeNone == "deletionPolicy=Merge must not be used with creationPolicy=None. There is no Secret to merge with"

ErrNoData == "either data or dataFrom should be specified"

ErrSourceRef == "generatorRef or storeRef must be set when using sourceRef in dataFrom"

ErrNothingSet == "either extract, find, or sourceRef must be set to dataFrom"

ErrSameTime == "extract, find, or generatorRef cannot be set at the same time"

\* fmt.Errorf("duplicate secretKey found: %s", secretKey)
ErrDuplicate(secretKey) ==
    IF secretKey = "a" THEN "duplicate secretKey found: a"
    ELSE "duplicate secretKey found: b"

\* errors.Join(errs, err): nil operands are dropped
Join(errs, err) == errs \o err

\* a check that does not look whether sourceRef is set
validateSourceRef_NilToo(ref) ==
    IF ~ref.sourceRef.generatorRef /\ ~ref.sourceRef.storeRef
    THEN <<ErrSourceRef>> ELSE <<>>

validateSourceRef(ref) ==
    IF ref.sourceRef.set /\ ~ref.sourceRef.generatorRef /\ ~ref.sourceRef.storeRef
    THEN <<ErrSourceRef>> ELSE <<>>

validateFindExtractSourceRef(ref) ==
    IF ~ref.find /\ ~ref.extract /\ ~ref.sourceRef.set
    THEN <<ErrNothingSet>> ELSE <<>>

\* a check that counts any sourceRef, not only one with a generatorRef
validateExtractFindGenerator_AnySourceRef(ref) ==
    LET generatorRef == ref.sourceRef.set
    IN IF \/ (ref.find /\ (ref.extract \/ generatorRef))
          \/ (ref.extract /\ (ref.find \/ generatorRef))
          \/ (generatorRef /\ (ref.find \/ ref.extract))
       THEN <<ErrSameTime>> ELSE <<>>

validateExtractFindGenerator(ref) ==
    LET generatorRef == ref.sourceRef.set /\ ref.sourceRef.generatorRef
    IN IF \/ (ref.find /\ (ref.extract \/ generatorRef))
          \/ (ref.extract /\ (ref.find \/ generatorRef))
          \/ (generatorRef /\ (ref.find \/ ref.extract))
       THEN <<ErrSameTime>> ELSE <<>>

\* a policy check without the Merge/None rule
validatePolicies_DeleteOnly(es) ==
    IF \/ (es.deletionPolicy = "Delete" /\ es.creationPolicy = "Merge")
       \/ (es.deletionPolicy = "Delete" /\ es.creationPolicy = "None")
    THEN Join(<<>>, <<ErrDeleteNotOwner>>) ELSE <<>>

validatePolicies(es) ==
    LET errs1 == IF \/ (es.deletionPolicy = "Delete" /\ es.creationPolicy = "Merge")
                    \/ (es.deletionPolicy = "Delete" /\ es.creationPolicy = "None")
                 THEN Join(<<>>, <<ErrDeleteNotOwner>>) ELSE <<>>
    IN IF es.deletionPolicy = "Merge" /\ es.creationPolicy = "None"
       THEN Join(errs1, <<ErrMergeNone>>) ELSE errs1

\* the loop of validateDuplicateKeys over es.Spec.Data, from index i
RECURSIVE DuplicateKeysFrom(_, _, _, _)
DuplicateKeysFrom(data, i, seenKeys, errs) ==
    IF i > Len(data) THEN errs
    ELSE DuplicateKeysFrom(data, i + 1, seenKeys \cup {data[i]},
                           IF data[i] \in seenKeys
                           THEN Join(errs, <<ErrDuplicate(data[i])>>) ELSE errs)

\* a duplicate check applied under every deletionPolicy
validateDuplicateKeys_AnyPolicy(es, errs) ==
    DuplicateKeysFrom(es.data, 1, {}, errs)

validateDuplicateKeys(es, errs) ==
    IF es.deletionPolicy = "Retain"
    THEN DuplicateKeysFrom(es.data, 1, {}, errs)
    ELSE errs

\* the loop of validateExternalSecret over es.Spec.DataFrom, from index i
RECURSIVE DataFromLoop(_, _, _)
DataFromLoop(dataFrom, i, errs) ==
    IF i > Len(dataFrom) THEN errs
    ELSE LET ref == dataFrom[i]
             e1 == Join(errs, validateExtractFindGenerator(ref))
             e2 == Join(e1, validateFindExtractSourceRef(ref))
             e3 == Join(e2, validateSourceRef(ref))
         IN DataFromLoop(dataFrom, i + 1, e3)

\* a validator that returns at the first violated rule
validateExternalSecret_FailFast(obj) ==
    IF obj.kind # "ExternalSecret" THEN <<ErrUnexpectedType>>
    ELSE LET e1 == validatePolicies(obj)
             e2 == IF Len(obj.data) = 0 /\ Len(obj.dataFrom) = 0
                   THEN <<ErrNoData>> ELSE <<>>
             e3 == DataFromLoop(obj.dataFrom, 1, <<>>)
             e4 == validateDuplicateKeys(obj, <<>>)
             all == e1 \o e2 \o e3 \o e4
         IN IF all = <<>> THEN <<>> ELSE <<all[1]>>

validateExternalSecret(obj) ==
    IF obj.kind # "ExternalSecret" THEN <<ErrUnexpectedType>>
    ELSE LET e1 == Join(<<>>, validatePolicies(obj))
             e2 == IF Len(obj.data) = 0 /\ Len(obj.dataFrom) = 0
                   THEN Join(e1, <<ErrNoData>>) ELSE e1
             e3 == DataFromLoop(obj.dataFrom, 1, e2)
         IN validateDuplicateKeys(obj, e3)

\* ExternalSecretValidator.ValidateCreate
ValidateCreate(obj) ==
    /\ vdCount < MaxAdmissions
    /\ vdCount' = vdCount + 1
    /\ vdCall' = [op |-> "create", old |-> NoExternalSecret, obj |-> obj]
    /\ vdRet' = validateExternalSecret(obj)
    /\ UNCHANGED nonVdVars

\* a ValidateUpdate that validates the object as it was before the update
ValidateUpdate_ValidatesOld(oldObj, newObj) ==
    /\ vdCount < MaxAdmissions
    /\ vdCount' = vdCount + 1
    /\ vdCall' = [op |-> "update", old |-> oldObj, obj |-> newObj]
    /\ vdRet' = validateExternalSecret(oldObj)
    /\ UNCHANGED nonVdVars

\* ExternalSecretValidator.ValidateUpdate(_, _, newObj): the old object has
\* no name in the signature
ValidateUpdate(oldObj, newObj) ==
    /\ vdCount < MaxAdmissions
    /\ vdCount' = vdCount + 1
    /\ vdCall' = [op |-> "update", old |-> oldObj, obj |-> newObj]
    /\ vdRet' = validateExternalSecret(newObj)
    /\ UNCHANGED nonVdVars

\* ExternalSecretValidator.ValidateDelete
ValidateDelete(obj) ==
    /\ vdCount < MaxAdmissions
    /\ vdCount' = vdCount + 1
    /\ vdCall' = [op |-> "delete", old |-> NoExternalSecret, obj |-> obj]
    /\ vdRet' = <<>>
    /\ UNCHANGED nonVdVars

(***************************************************************************)
(* The SecretStore admission validator and the provider registry.  Their   *)
(* code is outside this source tree: the model follows the specification   *)
(* (Register / Lookup, ValidateStore) and the cases of                     *)
(* TestValidateSecretStore.                                                *)
(***************************************************************************)
\* the backend fields of SecretStoreProvider used here
Backends == {"aws", "gcpsm", "keyhub"}

MaintenanceStatuses == {"Maintained", "NotMaintained"}

\* a namespace regex is modelled by whether it compiles
RegexLists == SeqsUpTo(BOOLEAN, MaxRegexes)

\* spec.conditions: each condition with its NamespaceRegexes
ConditionLists == SeqsUpTo(RegexLists, MaxConditions)

\* a SecretStore: the backend fields set in spec.provider (none when the
\* provider block is missing) and its conditions
SecretStores == [provider : SUBSET Backends, conditions : ConditionLists]

\* the two checks of validateStore, whose relative order the specification
\* leaves open: either check first with an early return, or both joined
CheckOrders == {"conditionsFirst", "lookupFirst", "joined"}

NoStoreCall ==
    [called |-> FALSE, reg |-> [b \in Backends |-> "none"],
     store |-> [provider |-> {}, conditions |-> <<>>],
     order |-> "joined", providerErr |-> FALSE]

\* "failed to compile <r>th namespace regex in <c>th condition: ..."
ErrRegex(c, r) ==
    CASE c = 0 /\ r = 0 -> "failed to compile 0th namespace regex in 0th condition"
      [] c = 0 /\ r = 1 -> "failed to compile 1th namespace regex in 0th condition"
      [] c = 0 /\ r = 2 -> "failed to compile 2th namespace regex in 0th condition"
      [] c = 1 /\ r = 0 -> "failed to compile 0th namespace regex in 1th condition"
      [] c = 1 /\ r = 1 -> "failed to compile 1th namespace regex in 1th condition"
      [] c = 1 /\ r = 2 -> "failed to compile 2th namespace regex in 1th condition"
      [] c = 2 /\ r = 0 -> "failed to compile 0th namespace regex in 2th condition"
      [] c = 2 /\ r = 1 -> "failed to compile 1th namespace regex in 2th condition"
      [] OTHER -> "failed to compile 2th namespace regex in 2th condition"

\* "store error for : secret stores must only have exactly one backend
\* specified, found <n>"
ErrBackendCount(n) ==
    CASE n = 0 -> "secret stores must only have exactly one backend specified, found 0"
      [] n = 2 -> "secret stores must only have exactly one backend specified, found 2"
      [] n = 3 -> "secret stores must only have exactly one backend specified, found 3"
      [] OTHER -> "secret stores must only have exactly one backend specified, found 1"

ErrUnknownBackend == "UnknownBackend"

ErrProvider == "provider ValidateStore error"

WarnStoreUnmaintained == "warnStoreUnmaintained"

\* a check that stops at the first regex that does not compile
RegexErrorsFrom_FailFast(regexes, c, r, errs) ==
    LET bad == {i \in (r + 1)..Len(regexes) : ~regexes[i]}
    IN IF errs # <<>> \/ bad = {} THEN errs
       ELSE Join(errs, <<ErrRegex(c, (CHOOSE i \in bad : \A j \in bad : i <= j) - 1)>>)

\* the regexes of one condition, from index r (0-based as in the messages)
RECURSIVE RegexErrorsFrom(_, _, _, _)
RegexErrorsFrom(regexes, c, r, errs) ==
    IF r >= Len(regexes) THEN errs
    ELSE RegexErrorsFrom(regexes, c, r + 1,
                         IF regexes[r + 1] THEN errs ELSE Join(errs, <<ErrRegex(c, r)>>))

\* all conditions, from index c
RECURSIVE ConditionErrorsFrom(_, _, _)
ConditionErrorsFrom(conditions, c, errs) ==
    IF c >= Len(conditions) THEN errs
    ELSE ConditionErrorsFrom(conditions, c + 1,
                             RegexErrorsFrom(conditions[c + 1], c, 0, errs))

validateConditions(store) == ConditionErrorsFrom(store.conditions, 0, <<>>)

\* a lookup that takes any one of the backend fields set
getProviderName_AnyOne(provider) ==
    IF Cardinality(provider) = 0
    THEN [name |-> "", err |-> <<ErrBackendCount(0)>>]
    ELSE [name |-> CHOOSE b \in provider : TRUE, err |-> <<>>]

\* the name of the one backend field set, or the count error
getProviderName(provider) ==
    IF Cardinality(provider) # 1
    THEN [name |-> "", err |-> <<ErrBackendCount(Cardinality(provider))>>]
    ELSE [name |-> CHOOSE b \in provider : TRUE, err |-> <<>>]

\* Lookup(storeSpec): the registered backend of the store
GetProvider(reg, store) ==
    LET pn == getProviderName(store.provider)
    IN IF pn.err # <<>> THEN [name |-> "", err |-> pn.err]
       ELSE IF reg[pn.name] = "none" THEN [name |-> "", err |-> <<ErrUnknownBackend>>]
       ELSE [name |-> pn.name, err |-> <<>>]

\* the exactly-one-backend check, the delegation to the backend's own
\* validator (which fails iff providerErr) and the maintenance warning
validateBackend(reg, store, providerErr) ==
    LET p == GetProvider(reg, store)
    IN IF p.err # <<>> THEN [warns |-> <<>>, err |-> p.err]
       ELSE IF providerErr THEN [warns |-> <<>>, err |-> <<ErrProvider>>]
       ELSE [warns |-> IF reg[p.name] = "NotMaintained"
                       THEN <<WarnStoreUnmaintained>> ELSE <<>>,
             err |-> <<>>]

validateStore(reg, store, order, providerErr) ==
    LET ce == validateConditions(store)
        be == validateBackend(reg, store, providerErr)
    IN CASE order = "conditionsFirst" ->
              IF ce # <<>> THEN [warns |-> <<>>, err |-> ce] ELSE be
         [] order = "lookupFirst" ->
              IF be.err # <<>> THEN be
              ELSE IF ce # <<>> THEN [warns |-> <<>>, err |-> ce] ELSE be
         [] OTHER ->
              IF Join(ce, be.err) # <<>>
              THEN [warns |-> <<>>, err |-> Join(ce, be.err)] ELSE be

\* the cases of TestValidateSecretStore: registry, store, expected result
StoreTestCase(reg, provider, conditions, warns, err) ==
    [reg |-> reg, store |-> [provider |-> provider, conditions |-> conditions],
     warns |-> warns, err |-> err]

AwsRegistered(status) == [b \in Backends |-> IF b = "aws" THEN status ELSE "none"]

SecretStoreTests ==
    { StoreTestCase(AwsRegistered("Maintained"), {"aws"}, << <<TRUE>> >>, <<>>, <<>>),
      StoreTestCase(AwsRegistered("Maintained"), {"aws"}, << <<FALSE>> >>,
                    <<>>, <<ErrRegex(0, 0)>>),
      StoreTestCase(AwsRegistered("Maintained"), {"aws"}, << <<FALSE, FALSE>> >>,
                    <<>>, <<ErrRegex(0, 0), ErrRegex(0, 1)>>),
      StoreTestCase(AwsRegistered("Maintained"), {"aws", "gcpsm"}, <<>>,
                    <<>>, <<ErrBackendCount(2)>>),
      StoreTestCase(AwsRegistered("Maintained"), {}, << <<>> >>,
                    <<>>, <<ErrBackendCount(0)>>),
      StoreTestCase(AwsRegistered("NotMaintained"), {"aws"}, << <<TRUE>> >>,
                    <<WarnStoreUnmaintained>>, <<>>) }

\* the model returns what every test case expects, whatever the order of
\* the two checks
SecretStoreTestsAgree ==
    \A t \in SecretStoreTests, order \in CheckOrders :
        validateStore(t.reg, t.store, order, FALSE) = [warns |-> t.warns, err |-> t.err]

\* a registration that leaves an earlier one of the same kind in place
ForceRegister_KeepsFirst(b, status) ==
    /\ Len(vsRegs) < MaxRegistrations
    /\ vsRegs' = Append(vsRegs, <<b, status>>)
    /\ builder' = IF builder[b] = "none" THEN [builder EXCEPT ![b] = status]
                  ELSE builder
    /\ UNCHANGED <<vsCount, vsCall, vsRet, nonVsVars>>

\* ForceRegister(provider, storeSpec, maintenance): the latest registration
\* of a backend replaces the earlier one
ForceRegister(b, status) ==
    /\ Len(vsRegs) < MaxRegistrations
    /\ vsRegs' = Append(vsRegs, <<b, status>>)
    /\ builder' = [builder EXCEPT ![b] = status]
    /\ UNCHANGED <<vsCount, vsCall, vsRet, nonVsVars>>

\* GenericStoreValidator.ValidateCreate / ValidateUpdate -> validateStore
ValidateStore(store, order, providerErr) ==
    /\ vsCount' = vsCount + 1
    /\ vsCall' = [called |-> TRUE, reg |-> builder, store |-> store,
                  order |-> order, providerErr |-> providerErr]
    /\ vsRet' = validateStore(builder, store, order, providerErr)
    /\ UNCHANGED <<builder, vsRegs, nonVsVars>>

(***************************************************************************)
(* KeyHub client: the properties of a vault record, GetSecret,             *)
(* GetSecretMap and GetAllSecrets.  Strings that are concatenated are      *)
(* sequences of tokens, so that a formatted key is what Sprintf builds.    *)
(***************************************************************************)
\* a nil pointer returned by a getter of the record
Nil == "<nil>"

\* names of vault records; the third one contains a slash
RecordNames == {<<"A">>, <<"B">>, <<"A", "/", "password">>}

\* the properties of the documentation's table
SupportedProperties ==
    {"name", "color", "link", "username", "password", "filename", "file",
     "enddate", "comment", "lastModifiedBy", "lastModifiedAt"}

\* the properties whose getter may return nil, and their value when set
OptionalProperties == SupportedProperties \ {"name", "file"}

\* secret.GetFile(): nil, a base64 string, or a string that is not base64
FileValues == {Nil, "base64", "notbase64"}

\* base64.StdEncoding.DecodeString
DecodeString(file) ==
    IF file = "base64" THEN [value |-> <<"decoded">>, err |-> "nil"]
    ELSE [value |-> <<>>, err |-> "illegal base64 data"]

\* a vault record as GetVaultRecord returns it: a name, the file, and for
\* each other property whether its getter returns a value
VaultRecords ==
    [name : RecordNames, file : FileValues, set : SUBSET OptionalProperties]

\* the records that differ in what fetching all properties can see
FindableRecords ==
    {r \in VaultRecords : r.set \subseteq {"link", "username", "password"}}

\* []byte(*getter()) of a property that is set: the value names its property
ValueOf(property) == <<property>>

EmptyValue == <<>>

EmptyMap == [k \in {} |-> <<>>]

\* data[key] = value
MapSet(data, key, value) ==
    [k \in DOMAIN data \cup {key} |-> IF k = key THEN value ELSE data[k]]

\* fmt.Errorf("invalid property '%s'", property)
ErrInvalidProperty(property) ==
    CASE property = "" -> "invalid property ''"
      [] property = "name" -> "invalid property 'name'"
      [] property = "color" -> "invalid property 'color'"
      [] property = "link" -> "invalid property 'link'"
      [] property = "username" -> "invalid property 'username'"
      [] property = "password" -> "invalid property 'password'"
      [] property = "filename" -> "invalid property 'filename'"
      [] property = "file" -> "invalid property 'file'"
      [] property = "enddate" -> "invalid property 'enddate'"
      [] property = "comment" -> "invalid property 'comment'"
      [] property = "lastModifiedBy" -> "invalid property 'lastModifiedBy'"
      [] property = "lastModifiedAt" -> "invalid property 'lastModifiedAt'"
      [] OTHER -> "invalid property 'nosuch'"

ErrVersion == "specifying a version is not supported by KeyHub"

\* one "if" of getVaultRecordProperties for a property that is returned
\* when named, empty if nil
NamedOrEmpty(data, record, property, name) ==
    IF property = name
    THEN MapSet(data, name, IF name \in record.set THEN ValueOf(name) ELSE EmptyValue)
    ELSE data

\* ... for a property that is also part of fetching all, when not nil
FetchAllOrNamed(data, record, property, name) ==
    IF property = "" \/ property = name
    THEN IF name \in record.set THEN MapSet(data, name, ValueOf(name))
         ELSE IF property # "" THEN MapSet(data, name, EmptyValue)
         ELSE data
    ELSE data

\* ... for a property that is returned only when named and not nil
NamedIfSet(data, record, property, name) ==
    IF property = name /\ name \in record.set
    THEN MapSet(data, name, ValueOf(name)) ELSE data

getVaultRecordProperties(record, property) ==
    LET d1 == IF property = "name"
              THEN MapSet(EmptyMap, "name", record.name) ELSE EmptyMap
        d2 == NamedOrEmpty(d1, record, property, "color")
        d3 == FetchAllOrNamed(d2, record, property, "link")
        d4 == FetchAllOrNamed(d3, record, property, "username")
        d5 == FetchAllOrNamed(d4, record, property, "password")
        d6 == NamedOrEmpty(d5, record, property, "filename")
        file == (property = "" \/ property = "file") /\ record.file # Nil
        d7 == IF file /\ DecodeString(record.file).err = "nil"
              THEN MapSet(d6, "file", DecodeString(record.file).value) ELSE d6
        d8 == NamedIfSet(d7, record, property, "enddate")
        d9 == NamedIfSet(d8, record, property, "comment")
        d10 == NamedIfSet(d9, record, property, "lastModifiedBy")
        d11 == NamedIfSet(d10, record, property, "lastModifiedAt")
    IN IF file /\ DecodeString(record.file).err # "nil"
       THEN [data |-> EmptyMap, err |-> DecodeString(record.file).err]
       ELSE IF DOMAIN d11 = {}
       THEN [data |-> EmptyMap, err |-> ErrInvalidProperty(property)]
       ELSE [data |-> d11, err |-> "nil"]

\* a Go map read of a missing key yields the zero value
MapGet(data, key) == IF key \in DOMAIN data THEN data[key] ELSE EmptyValue

NoKpCall ==
    [fn |-> "none", property |-> "", version |-> "", records |-> <<>>,
     backendErr |-> "nil"]

NoKpRet == [value |-> <<>>, data |-> EmptyMap, err |-> "nil"]

KpReturn(fn, property, version, records, backendErr, value, data, err) ==
    /\ kpCount' = kpCount + 1
    /\ kpCall' = [fn |-> fn, property |-> property, version |-> version,
                  records |-> records, backendErr |-> backendErr]
    /\ kpRet' = [value |-> value, data |-> data, err |-> err]
    /\ UNCHANGED nonKpVars

\* a GetSecret that hands an empty property on as it is
GetSecret_NoDefault(record, refProperty, version, backendErr) ==
    IF version # ""
    THEN KpReturn("GetSecret", refProperty, version, <<record>>, backendErr,
                  <<>>, EmptyMap, ErrVersion)
    ELSE LET values == getVaultRecordProperties(record, refProperty)
         IN IF backendErr # "nil"
            THEN KpReturn("GetSecret", refProperty, version, <<record>>, backendErr,
                          <<>>, EmptyMap, backendErr)
            ELSE IF values.err # "nil"
            THEN KpReturn("GetSecret", refProperty, version, <<record>>, backendErr,
                          <<>>, EmptyMap, values.err)
            ELSE KpReturn("GetSecret", refProperty, version, <<record>>, backendErr,
                          MapGet(values.data, refProperty), EmptyMap, "nil")

\* client.GetSecret on a record that getVaultRecord returns, or its error
GetSecret(record, refProperty, version, backendErr) ==
    IF version # ""
    THEN KpReturn("GetSecret", refProperty, version, <<record>>, backendErr,
                  <<>>, EmptyMap, ErrVersion)
    ELSE LET property == IF refProperty = "" THEN "password" ELSE refProperty
             values == getVaultRecordProperties(record, property)
         IN IF backendErr # "nil"
            THEN KpReturn("GetSecret", refProperty, version, <<record>>, backendErr,
                          <<>>, EmptyMap, backendErr)
            ELSE IF values.err # "nil"
            THEN KpReturn("GetSecret", refProperty, version, <<record>>, backendErr,
                          <<>>, EmptyMap, values.err)
            ELSE KpReturn("GetSecret", refProperty, version, <<record>>, backendErr,
                          MapGet(values.data, property), EmptyMap, "nil")

\* client.GetSecretMap
GetSecretMap(record, refProperty, version, backendErr) ==
    IF version # ""
    THEN KpReturn("GetSecretMap", refProperty, version, <<record>>, backendErr,
                  <<>>, EmptyMap, ErrVersion)
    ELSE IF backendErr # "nil"
    THEN KpReturn("GetSecretMap", refProperty, version, <<record>>, backendErr,
                  <<>>, EmptyMap, backendErr)
    ELSE LET values == getVaultRecordProperties(record, refProperty)
         IN KpReturn("GetSecretMap", refProperty, version, <<record>>, backendErr,
                     <<>>, values.data, values.err)

\* fmt.Sprintf("%s/%s", key, propertyName)
SlashKey(key, propertyName) == key \o <<"/">> \o <<propertyName>>

\* the inner loop of GetAllSecrets over recordProperties
RECURSIVE StoreProperties(_, _, _, _, _)
StoreProperties(secretData, record, recordProperties, todo, isSingleProperty) ==
    IF todo = {} THEN secretData
    ELSE LET propertyName == CHOOSE n \in todo : TRUE
             key == IF isSingleProperty THEN record.name
                    ELSE SlashKey(record.name, propertyName)
         IN StoreProperties(MapSet(secretData, key, recordProperties[propertyName]),
                            record, recordProperties, todo \ {propertyName},
                            isSingleProperty)

\* the outer loop of GetAllSecrets over the matched records, from index i
RECURSIVE CollectSecrets(_, _, _)
CollectSecrets(secrets, i, secretData) ==
    IF i > Len(secrets) THEN [data |-> secretData, err |-> "nil"]
    ELSE LET record == secrets[i]
             props == getVaultRecordProperties(record, "")
         IN IF props.err # "nil" THEN [data |-> EmptyMap, err |-> props.err]
            ELSE CollectSecrets(secrets, i + 1,
                     StoreProperties(secretData, record, props.data, DOMAIN props.data,
                                     Cardinality(DOMAIN props.data) = 1))

\* client.GetAllSecrets on the records listSecrets returns, or its error
GetAllSecrets(secrets, backendErr) ==
    IF backendErr # "nil"
    THEN KpReturn("GetAllSecrets", "", "", secrets, backendErr,
                  <<>>, EmptyMap, backendErr)
    ELSE LET r == CollectSecrets(secrets, 1, EmptyMap)
         IN KpReturn("GetAllSecrets", "", "", secrets, backendErr, <<>>, r.data, r.err)

(***************************************************************************)
(* KeyHub API client (pkg/provider/keyhub/client/client.go): the reads of  *)
(* one vault record by uuid.                                               *)
(***************************************************************************)
\* what a request to KeyHub can end in besides an answer
BackendFaults == {"none", "network", "unauthorized"}

NoSecretErr == "NoSecretErr"

NoKcCall == [fn |-> "none", uuid |-> <<>>, fault |-> "none", present |-> FALSE]

\* Vaultrecord().Get with the uuid filter: the error, or the items found
VaultrecordGet(uuid, fault) ==
    IF fault # "none" THEN [err |-> fault, items |-> 0]
    ELSE [err |-> "nil", items |-> IF uuid \in kcVault THEN 1 ELSE 0]

KcReturn(fn, uuid, fault, found, err) ==
    /\ kcCount < MaxApiCalls
    /\ kcCount' = kcCount + 1
    /\ kcCall' = [fn |-> fn, uuid |-> uuid, fault |-> fault,
                  present |-> uuid \in kcVault]
    /\ kcRet' = [found |-> found, err |-> err]
    /\ UNCHANGED <<kcVault, nonKcVars>>

\* KeyHubClient.GetVaultRecordLastModifiedAt: err != nil || len(records) == 0
GetVaultRecordLastModifiedAt(uuid, fault) ==
    LET records == VaultrecordGet(uuid, fault)
    IN IF records.err # "nil" \/ records.items = 0
       THEN KcReturn("GetVaultRecordLastModifiedAt", uuid, fault, FALSE, NoSecretErr)
       ELSE KcReturn("GetVaultRecordLastModifiedAt", uuid, fault, TRUE, "nil")

\* KeyHubClient.GetVaultRecord: err != nil || len(wrapper.GetItems()) == 0
GetVaultRecord(uuid, fault) ==
    LET wrapper == VaultrecordGet(uuid, fault)
    IN IF wrapper.err # "nil" \/ wrapper.items = 0
       THEN KcReturn("GetVaultRecord", uuid, fault, FALSE, NoSecretErr)
       ELSE KcReturn("GetVaultRecord", uuid, fault, TRUE, "nil")

\* a vault record is created in KeyHub, or deleted from it
KC_RemoteCreate(uuid) ==
    /\ uuid \notin kcVault
    /\ kcVault' = kcVault \cup {uuid}
    /\ UNCHANGED <<kcCount, kcCall, kcRet, nonKcVars>>

KC_RemoteDelete(uuid) ==
    /\ uuid \in kcVault
    /\ kcVault' = kcVault \ {uuid}
    /\ UNCHANGED <<kcCount, kcCall, kcRet, nonKcVars>>

(***************************************************************************)
(* Resolution of a dotted property path against a JSON value, as the       *)
(* specification states it (section 4.5); the implementation in the Azure  *)
(* Key Vault provider is outside this source tree.  A map key and a path   *)
(* are the sequences of their dot-separated segments, so the key           *)
(* "foo.json" and the path "foo.json" are both <<"foo", "json">>.          *)
(***************************************************************************)
PathSegments == {"foo", "json", "key"}

\* the keys JSON objects use here, in the order json.Marshal writes them
JsonKeyOrder ==
    << <<"foo">>, <<"foo", "json">>, <<"foo", "key">>, <<"json">>, <<"key">> >>

JsonKeys == {JsonKeyOrder[i] : i \in DOMAIN JsonKeyOrder}

JsonString(str) == [kind |-> "string", str |-> str, fields |-> EmptyMap]

JsonObject(fields) == [kind |-> "object", str |-> "", fields |-> fields]

JsonStrings == {JsonString("bar"), JsonString("value")}

\* the objects with at most n keys whose values are taken from vals
ObjectsOver(vals, n) ==
    UNION {{JsonObject(f) : f \in [ks -> vals]} :
              ks \in {k \in SUBSET JsonKeys : Cardinality(k) <= n}}

InnerObjects == ObjectsOver(JsonStrings, MaxInnerKeys)

\* the JSON values a record's primary value decodes to
JsonValues == ObjectsOver(JsonStrings \cup InnerObjects, MaxKeys)

PropertyPaths == UNION {[1..n -> PathSegments] : n \in 1..MaxPath}

\* a key as text: its segments with the dots between them
RECURSIVE KeyText(_)
KeyText(k) ==
    IF Len(k) <= 1 THEN k ELSE <<k[1], ".">> \o KeyText(Tail(k))

\* json.Marshal of a value, as the sequence of its tokens; the fields of an
\* object from position i of JsonKeyOrder on, first tells whether a comma
\* is due
RECURSIVE MarshalFields(_, _, _)
RECURSIVE Marshal(_)
MarshalFields(fields, i, first) ==
    IF i > Len(JsonKeyOrder) THEN <<>>
    ELSE LET k == JsonKeyOrder[i]
         IN IF k \in DOMAIN fields
            THEN (IF first THEN <<>> ELSE <<",">>)
                 \o <<"\"">> \o KeyText(k) \o <<"\"", ":">> \o Marshal(fields[k])
                 \o MarshalFields(fields, i + 1, FALSE)
            ELSE MarshalFields(fields, i + 1, first)

Marshal(v) ==
    IF v.kind = "string" THEN <<"\"", v.str, "\"">>
    ELSE <<"{">> \o MarshalFields(v.fields, 1, TRUE) \o <<"}">>

\* a leaf scalar is returned as its text, an object re-serialized as JSON
ResultBytes(v) == IF v.kind = "string" THEN <<v.str>> ELSE Marshal(v)

NotResolved == [found |-> FALSE, value |-> JsonString("")]

\* the lengths of the prefixes of the path that are keys of the object
LiteralPrefixes(v, path) ==
    {n \in 1..Len(path) : SubSeq(path, 1, n) \in DOMAIN v.fields}

SetMax(S) == CHOOSE n \in S : \A m \in S : m <= n

SetMin(S) == CHOOSE n \in S : \A m \in S : n <= m

\* a descent that splits at the first dot it can: nested structure wins
RECURSIVE ResolvePath_SplitFirst(_, _)
ResolvePath_SplitFirst(v, path) ==
    IF path = <<>> THEN [found |-> TRUE, value |-> v]
    ELSE IF v.kind # "object" \/ LiteralPrefixes(v, path) = {} THEN NotResolved
    ELSE LET n == SetMin(LiteralPrefixes(v, path))
         IN ResolvePath_SplitFirst(v.fields[SubSeq(path, 1, n)],
                                   SubSeq(path, n + 1, Len(path)))

\* dotted-path descent: the entire remaining path is tried as one literal
\* key; on a miss it is shortened from the right until a key is found, and
\* the descent goes on in that key's value with the remainder
RECURSIVE ResolvePath(_, _)
ResolvePath(v, path) ==
    IF path = <<>> THEN [found |-> TRUE, value |-> v]
    ELSE IF v.kind # "object" \/ LiteralPrefixes(v, path) = {} THEN NotResolved
    ELSE LET n == SetMax(LiteralPrefixes(v, path))
         IN ResolvePath(v.fields[SubSeq(path, 1, n)], SubSeq(path, n + 1, Len(path)))

\* fmt.Sprintf("property %s does not exist in key %s", ...): the tokens of
\* the message, the property as its dotted text; no error is <<>>
ErrPropNotExist(path) ==
    <<"property ">> \o KeyText(path) \o <<" does not exist in key">>

NoRpCall == [called |-> FALSE, value |-> JsonObject(EmptyMap), path |-> <<>>]

\* ResolveProperty(record, path) for a non-empty path into the value
ResolveProperty(value, path) ==
    /\ rpCount' = rpCount + 1
    /\ rpCall' = [called |-> TRUE, value |-> value, path |-> path]
    /\ LET r == ResolvePath(value, path)
       IN rpRet' = IF r.found THEN [bytes |-> ResultBytes(r.value), err |-> <<>>]
                   ELSE [bytes |-> <<>>, err |-> ErrPropNotExist(path)]
    /\ UNCHANGED nonRpVars

(***************************************************************************)
(* Reading the tags of an Azure Key Vault object (metadataPolicy Fetch),   *)
(* as the specification states it (ResolveTag, section 4.5) and as         *)
(* TestAzureKeyVaultSecretManagerGetSecret expects it; the implementation  *)
(* is outside this source tree.  Tag names and properties are sequences    *)
(* of dot-separated segments, texts are sequences of tokens.               *)
(***************************************************************************)
\* the tag names used here, in the order json.Marshal writes map keys
TagOrder == << <<"foo">>, <<"foo", "key">>, <<"tagname">>, <<"tagname2">> >>

TagNames == {TagOrder[i] : i \in DOMAIN TagOrder}

\* a tag's value: a plain string, or a string that holds a JSON object
TagValues ==
    {JsonString("bar"), JsonString("tagvalue"), JsonString("tagvalue2"),
     JsonObject(MapSet(EmptyMap, <<"key">>, JsonString("value")))}

\* Tags of a SecretBundle, KeyBundle or CertificateBundle: nil is no tags
TagMaps ==
    UNION {[names -> TagValues] :
              names \in {n \in SUBSET TagNames : Cardinality(n) <= MaxTags}}

TagSegments == {"foo", "key", "tagname", "tagname2", "something"}

\* ref.Property: empty, or a dotted path of one or two segments
TagProperties == {<<>>} \cup UNION {[1..n -> TagSegments] : n \in 1..2}

\* the object types a key can name, and one that is unknown
TagObjTypes == SupportedTypes \cup {"example"}

\* the string a tag holds, as text
TagText(v) == IF v.kind = "string" THEN <<v.str>> ELSE Marshal(v)

\* a string's content inside a JSON string: quotes are escaped
Escape(text) == [i \in DOMAIN text |-> IF text[i] = "\"" THEN "\\\"" ELSE text[i]]

\* json.Marshal of the tags as map[string]string, from position i of
\* TagOrder on
RECURSIVE MarshalTagsFrom(_, _, _)
MarshalTagsFrom(tags, i, first) ==
    IF i > Len(TagOrder) THEN <<>>
    ELSE LET k == TagOrder[i]
         IN IF k \in DOMAIN tags
            THEN (IF first THEN <<>> ELSE <<",">>)
                 \o <<"\"">> \o KeyText(k) \o <<"\"", ":", "\"">>
                 \o Escape(TagText(tags[k])) \o <<"\"">>
                 \o MarshalTagsFrom(tags, i + 1, FALSE)
            ELSE MarshalTagsFrom(tags, i + 1, first)

MarshalTags(tags) == <<"{">> \o MarshalTagsFrom(tags, 1, TRUE) \o <<"}">>

\* "tag %s does not exist"
ErrTagNotExist(property) == <<"tag ">> \o KeyText(property) \o <<" does not exist">>

\* "unknown Azure Keyvault object Type for %s"
ErrUnknownObjectType == <<"unknown Azure Keyvault object Type">>

\* a lookup that yields an empty value for a tag that does not exist
getSecretTag_MissingIsEmpty(tags, property) ==
    IF property = <<>> THEN [bytes |-> MarshalTags(tags), err |-> <<>>]
    ELSE IF LiteralPrefixes(JsonObject(tags), property) = {}
    THEN [bytes |-> <<>>, err |-> <<>>]
    ELSE LET r == ResolvePath(JsonObject(tags), property)
         IN IF r.found THEN [bytes |-> ResultBytes(r.value), err |-> <<>>]
            ELSE [bytes |-> <<>>, err |-> ErrPropNotExist(property)]

\* ResolveTag: all tags as one JSON object when the property is empty; else
\* the named tag's value, itself subject to the dotted-path rule; the tag
\* error when no tag is named
getSecretTag(tags, property) ==
    IF property = <<>> THEN [bytes |-> MarshalTags(tags), err |-> <<>>]
    ELSE IF LiteralPrefixes(JsonObject(tags), property) = {}
    THEN [bytes |-> <<>>, err |-> ErrTagNotExist(property)]
    ELSE LET r == ResolvePath(JsonObject(tags), property)
         IN IF r.found THEN [bytes |-> ResultBytes(r.value), err |-> <<>>]
            ELSE [bytes |-> <<>>, err |-> ErrPropNotExist(property)]

NoTgCall == [called |-> FALSE, objType |-> "secret", tags |-> EmptyMap, property |-> <<>>]

\* GetSecret with ref.MetadataPolicy = Fetch: the tags of the secret, key or
\* certificate the key names
GetSecretTags(objType, tags, property) ==
    /\ tgCount' = tgCount + 1
    /\ tgCall' = [called |-> TRUE, objType |-> objType, tags |-> tags,
                  property |-> property]
    /\ tgRet' = CASE objType = "secret" -> getSecretTag(tags, property)
                  [] objType = "cert" -> getSecretTag(tags, property)
                  [] objType = "key" -> getSecretTag(tags, property)
                  [] OTHER -> [bytes |-> <<>>, err |-> ErrUnknownObjectType]
    /\ UNCHANGED nonTgVars

(***************************************************************************)
(* The providers' own ValidateStore: KeyHub (pkg/provider/keyhub/          *)
(* validate.go with util.GetKeyHubProvider), GitLab, and Azure Key Vault   *)
(* (outside this source tree; as TestValidateStore expects it).  A store   *)
(* is described by how far it is filled in; a nil dereference is a panic.  *)
(***************************************************************************)
ProviderKinds == {"keyhub", "gitlab", "azurekv"}

\* how far the store is filled in: a nil store, GetSpec() nil, a spec
\* without provider block, or a provider block
StoreShapes == {"nilStore", "nilSpec", "nilProvider", "provider"}

\* a store: its shape, the backend fields set in the provider block, and
\* what the fields the validators look at hold
GenericStores ==
    {s \in [shape : StoreShapes, fields : SUBSET ProviderKinds,
            issuer : BOOLEAN, selectorValid : BOOLEAN, projectID : BOOLEAN,
            groupIDs : BOOLEAN, inheritFromGroups : BOOLEAN,
            tokenKey : BOOLEAN, tokenName : BOOLEAN] :
        s.shape # "provider" =>
            /\ s.fields = {}
            /\ s.issuer /\ s.selectorValid /\ s.projectID /\ s.groupIDs
            /\ s.inheritFromGroups /\ s.tokenKey /\ s.tokenName}

NoPvCall ==
    [called |-> FALSE, provider |-> "keyhub",
     store |-> [shape |-> "nilStore", fields |-> {}, issuer |-> TRUE,
                selectorValid |-> TRUE, projectID |-> TRUE, groupIDs |-> TRUE,
                inheritFromGroups |-> TRUE, tokenKey |-> TRUE, tokenName |-> TRUE]]

ErrNilStore == "found nil store"

ErrMissingStoreSpec == "store is missing spec"

ErrMissingProvider == "storeSpec is missing provider"

ErrSelector == "invalid secret selector"

Returned(err) == [err |-> err, panic |-> FALSE]

\* a nil pointer dereference
Panicked == [err |-> "nil", panic |-> TRUE]

\* util.GetKeyHubProvider: the nil checks on the generic store
GetKeyHubProvider(store) ==
    IF store.shape = "nilStore" THEN ErrNilStore
    ELSE IF store.shape = "nilSpec" THEN ErrMissingStoreSpec
    ELSE IF store.shape = "nilProvider" THEN ErrMissingProvider
    ELSE IF "keyhub" \notin store.fields THEN ErrMissingProvider
    ELSE "nil"

\* keyhub Provider.ValidateStore
KeyHubValidateStore(store) ==
    IF GetKeyHubProvider(store) # "nil" THEN Returned(GetKeyHubProvider(store))
    ELSE IF ~store.issuer THEN Returned("KeyHub issuer cannot be empty")
    ELSE IF ~store.selectorValid THEN Returned("invalid store")
    ELSE Returned("nil")

\* gitlab Provider.ValidateStore: store.GetSpec(), storeSpec.Provider.Gitlab
\* and gitlabSpec.Auth are dereferenced without a nil check
GitlabValidateStore(store) ==
    IF store.shape = "nilStore" THEN Panicked
    ELSE IF store.shape = "nilSpec" THEN Panicked
    ELSE IF store.shape = "nilProvider" THEN Panicked
    ELSE IF "gitlab" \notin store.fields THEN Panicked
    ELSE IF ~store.selectorValid THEN Returned(ErrSelector)
    ELSE IF ~store.projectID /\ ~store.groupIDs
    THEN Returned("projectID and groupIDs must not both be empty")
    ELSE IF store.inheritFromGroups /\ store.groupIDs
    THEN Returned("defining groupIDs and inheritFromGroups = true is not allowed")
    ELSE IF ~store.tokenKey THEN Returned("accessToken.key cannot be empty")
    ELSE IF ~store.tokenName THEN Returned("accessToken.name cannot be empty")
    ELSE Returned("nil")

\* Azure.ValidateStore, by the cases of TestValidateStore: storeIsNil,
\* specIsNil, providerIsNil, azureKVIsNil, and the auth references
AzureValidateStore(store) ==
    IF store.shape = "nilStore" THEN Returned(ErrNilStore)
    ELSE IF store.shape = "nilSpec" THEN Returned(ErrMissingStoreSpec)
    ELSE IF store.shape = "nilProvider" THEN Returned(ErrMissingProvider)
    ELSE IF "azurekv" \notin store.fields THEN Returned(ErrMissingProvider)
    ELSE IF ~store.selectorValid THEN Returned(ErrSelector)
    ELSE Returned("nil")

\* provider.ValidateStore(store)
ProviderValidateStore(provider, store) ==
    /\ pvCount' = pvCount + 1
    /\ pvCall' = [called |-> TRUE, provider |-> provider, store |-> store]
    /\ pvRet' = CASE provider = "keyhub" -> KeyHubValidateStore(store)
                  [] provider = "gitlab" -> GitlabValidateStore(store)
                  [] OTHER -> AzureValidateStore(store)
    /\ UNCHANGED nonPvVars

(***************************************************************************)
(* KeyHubClient.GetVaultRecordMetadata and iterateVaultRecords             *)
(* (client.go:73-126).  The backend holds the vault records 1..total in a  *)
(* fixed order; record i belongs to group "g1" when i is odd and to "g2"   *)
(* when it is even, and has the uuid i.  A request that carries a Range    *)
(* header "items=lo-hi" is answered with the matching records at the       *)
(* positions lo..hi; a request without one is answered with the first      *)
(* records up to the limit the server applies by itself.                   *)
(***************************************************************************)
\* VaultRecordFilter: UUID 0 and Group "" mean no filter
RecordFilters == [UUID : 0..1, Group : {"", "g1"}]

\* what the server puts at most in a response when no range is asked for
ServerLimits == {BatchSize, MaxRecords}

NoIvCall == [filter |-> [UUID |-> 0, Group |-> ""], total |-> 0, limit |-> 0]

GroupOf(i) == IF i % 2 = 1 THEN "g1" ELSE "g2"

\* lines 80-85: queryParams.Uuid and queryParams.Q select the records
Matches(filter, i) ==
    /\ filter.UUID # 0 => i = filter.UUID
    /\ filter.Group # "" => GroupOf(i) = filter.Group

\* the matching records of the backend, in its order
Matching(filter, total) == SelectSeq([i \in 1..total |-> i], LAMBDA i : Matches(filter, i))

\* fmt.Sprintf("items=%d-%d", offset*batchSize, offset*batchSize+batchSize-1)
RangeHeader(offset) == <<offset * BatchSize, (offset * BatchSize) + BatchSize - 1>>

\* the items of the server's response to a request with the given Range
\* header (<<>>: none)
ServerPage(records, range, limit) ==
    IF range = <<>>
    THEN SubSeq(records, 1, IF Len(records) < limit THEN Len(records) ELSE limit)
    ELSE SubSeq(records, range[1] + 1,
                IF Len(records) < range[2] + 1 THEN Len(records) ELSE range[2] + 1)

\* lines 73-96 and 106-109: GetVaultRecordMetadata builds the query, the
\* empty result, and enters iterateVaultRecords with offset 0 and a nil
\* wrapper; the for statement starts with ok := true
ListBegin(filter, total, limit) ==
    /\ ivPc \in {"idle", "done"}
    /\ ivCount < MaxListings
    /\ ivCount' = ivCount + 1
    /\ ivCall' = [filter |-> filter, total |-> total, limit |-> limit]
    /\ ivPc' = "request"
    /\ ivOffset' = 0
    /\ ivWrapper' = <<"nil">>
    /\ ivRequests' = <<>>
    /\ ivRet' = [result |-> <<>>, err |-> "nil"]
    /\ UNCHANGED nonIvVars

\* the loop condition of line 110, evaluated on the wrapper declared at
\* line 109: wrapper != nil && len(wrapper.GetItems()) < batchSize
LoopGoesOn(wrapper) == wrapper # <<"nil">> /\ Len(wrapper) < BatchSize

\* lines 110-124: one pass of the loop.  The Range header is added to
\* headers, but the request is built with Headers: nil; wrapper, err := ...
\* declares a wrapper of the loop body, the one of line 109 stays as it is.
\* On an error iterateVaultRecords and GetVaultRecordMetadata return it
\* (lines 98-100); after the last pass the collected records are returned.
ListRequest(fault) ==
    /\ ivPc = "request"
    /\ ivRequests' = Append(ivRequests, <<>>)
    /\ IF fault
       THEN /\ ivRet' = [result |-> <<>>, err |-> "request failed"]
            /\ ivPc' = "done"
            /\ UNCHANGED <<ivOffset, ivWrapper>>
       ELSE LET records == Matching(ivCall.filter, ivCall.total)
                items == ServerPage(records, <<>>, ivCall.limit)
            IN /\ ivRet' = [ivRet EXCEPT !.result = @ \o items]
               /\ ivOffset' = ivOffset + 1
               /\ UNCHANGED ivWrapper
               /\ ivPc' = IF LoopGoesOn(ivWrapper) THEN "request" ELSE "done"
    /\ UNCHANGED <<ivCount, ivCall>>
    /\ UNCHANGED nonIvVars

(***************************************************************************)
(* gitlabBase.getVariables (cert_controller_test.yaml.snap:201-218).  The  *)
(* answer of projectVariablesClient.GetVariable is the variable (<<>> for  *)
(* nil), the status of the response (0 for a nil response) and the error   *)
(* (<<>> for nil).  vopts.Filter is taken to be set by the caller.         *)
(***************************************************************************)
VariableKeys == {"k1", "k2"}

\* g.store.Environment and the scope the caller asks for
Environments == {"", "*", "prod"}

StatusOK == 200

StatusNotFound == 404

StatusForbidden == 403

\* the variable found for a key under a scope
Variable(key, scope) == <<key, scope>>

\* what GetVariable answers: found, not found, refused, no response at all,
\* and a variable without a response
Answers == {"found", "notFound", "forbidden", "noResponse", "foundNoResponse"}

Answer(kind, key, scope) ==
    CASE kind = "found" ->
           [data |-> Variable(key, scope), status |-> StatusOK, err |-> <<>>]
      [] kind = "notFound" ->
           [data |-> <<>>, status |-> StatusNotFound, err |-> <<"404 Not Found">>]
      [] kind = "forbidden" ->
           [data |-> <<>>, status |-> StatusForbidden, err |-> <<"403 Forbidden">>]
      [] kind = "noResponse" ->
           [data |-> <<>>, status |-> 0, err |-> <<"connection refused">>]
      [] OTHER ->
           [data |-> Variable(key, scope), status |-> 0, err |-> <<>>]

NoGlCall == [key |-> "", environment |-> "", scope |-> "", first |-> "", retry |-> ""]

isEmptyOrWildcard(s) == s = "" \/ s = "*"

\* fmt.Errorf("error getting variable %s from GitLab: %w", ref.Key, err)
ErrGettingVariable(key, err) ==
    <<"error getting variable ", key, " from GitLab: ">> \o
        (IF err = <<>> THEN <<"%!w(<nil>)">> ELSE err)

\* a retry after every failed first request
ShouldRetry_AnyFailure(resp, environment) == TRUE

\* line 205: resp != nil && resp.StatusCode == http.StatusNotFound &&
\* !isEmptyOrWildcard(g.store.Environment)
ShouldRetry(resp, environment) ==
    /\ resp.status # 0
    /\ resp.status = StatusNotFound
    /\ ~isEmptyOrWildcard(environment)

\* lines 201-218
getVariables(key, environment, scope, first, retry) ==
    /\ glCount' = glCount + 1
    /\ glCall' = [key |-> key, environment |-> environment, scope |-> scope,
                  first |-> first,
                  retry |-> IF Answer(first, key, scope).err # <<>>
                               /\ ShouldRetry(Answer(first, key, scope), environment)
                            THEN retry ELSE ""]
    /\ LET r1 == Answer(first, key, scope)
           r2 == Answer(retry, key, "*")
       IN IF r1.err # <<>>
          THEN IF ShouldRetry(r1, environment)
               THEN /\ glRequests' = <<[key |-> key, scope |-> scope],
                                       [key |-> key, scope |-> "*"]>>
                    /\ glRet' = IF r2.err # <<>> \/ r2.status = 0
                                THEN [data |-> <<>>, status |-> r2.status,
                                      err |-> ErrGettingVariable(key, r2.err)]
                                ELSE [data |-> r2.data, status |-> r2.status,
                                      err |-> <<>>]
               ELSE /\ glRequests' = <<[key |-> key, scope |-> scope]>>
                    /\ glRet' = [data |-> <<>>, status |-> r1.status, err |-> r1.err]
          ELSE /\ glRequests' = <<[key |-> key, scope |-> scope]>>
               /\ glRet' = [data |-> r1.data, status |-> r1.status, err |-> <<>>]
    /\ UNCHANGED nonGlVars

(***************************************************************************)
(* Specifications                                                          *)
(***************************************************************************)
Init ==
    /\ storeVersion = [s \in Stores |-> 1]
    /\ clientCache = EmptyCache
    /\ useMu = {}
    /\ ncPc = [p \in Procs |-> "idle"]
    /\ ncStore = [p \in Procs |-> NoStore]
    /\ ncRet = [p \in Procs |-> [client |-> NilClient, err |-> "nil"]]
    /\ factoryCalls = [k \in Stores \X Versions |-> 0]
    /\ remote = [u \in UUIDs |-> StartTicks]
    /\ recordCache = EmptyCache
    /\ kmHolder = [b \in Buckets |-> {}]
    /\ gvPc = [p \in Procs |-> "idle"]
    /\ gvRef = [p \in Procs |-> NoRef]
    /\ gvTok = [p \in Procs |-> 0]
    /\ gvRet = [p \in Procs |-> [record |-> NilRecord, err |-> "nil"]]
    /\ gvLog = [p \in Procs |-> NewLog]
    /\ fetchCalls = [u \in UUIDs |-> 0]
    /\ calls = [p \in Procs |-> 0]
    /\ hist = [nc |-> {}, gv |-> {}, ncRaced |-> {}]
    /\ vault = [k \in RemoteKeys |-> NoObject]
    /\ psPc = "idle"
    /\ psOp = NoRequest
    /\ psRead = NoRead
    /\ psRet = [exists |-> FALSE, err |-> "nil"]
    /\ psWrote = "none"
    /\ psTrace = <<>>
    /\ psFaults = 0
    /\ wrTrace = <<>>
    /\ wrSent = 0
    /\ vdCount = 0
    /\ vdCall = [op |-> "none", old |-> NoExternalSecret, obj |-> NoExternalSecret]
    /\ vdRet = <<>>
    /\ builder = [b \in Backends |-> "none"]
    /\ vsRegs = <<>>
    /\ vsCount = 0
    /\ vsCall = NoStoreCall
    /\ vsRet = [warns |-> <<>>, err |-> <<>>]
    /\ kpCount = 0
    /\ kpCall = NoKpCall
    /\ kpRet = NoKpRet
    /\ kcVault = {}
    /\ kcCount = 0
    /\ kcCall = NoKcCall
    /\ kcRet = [found |-> FALSE, err |-> "nil"]
    /\ rpCount = 0
    /\ rpCall = NoRpCall
    /\ rpRet = [bytes |-> <<>>, err |-> <<>>]
    /\ tgCount = 0
    /\ tgCall = NoTgCall
    /\ tgRet = [bytes |-> <<>>, err |-> <<>>]
    /\ pvCount = 0
    /\ pvCall = NoPvCall
    /\ pvRet = [err |-> "nil", panic |-> FALSE]
    /\ ivCount = 0
    /\ ivCall = NoIvCall
    /\ ivPc = "idle"
    /\ ivOffset = 0
    /\ ivWrapper = <<"nil">>
    /\ ivRequests = <<>>
    /\ ivRet = [result |-> <<>>, err |-> "nil"]
    /\ glCount = 0
    /\ glCall = NoGlCall
    /\ glRequests = <<>>
    /\ glRet = [data |-> <<>>, status |-> 0, err |-> <<>>]

\* the store client cache alone, every store in use
NextNC ==
    \/ \E p \in Procs, s \in Stores : NC_Begin(p, s)
    \/ \E p \in Procs : NC_Get1(p)
    \/ \E p \in Procs : NC_Lock(p)
    \/ \E p \in Procs : NC_Get2(p)
    \/ \E p \in Procs : NC_Factory(p)
    \/ \E p \in Procs : NC_Add(p)
    \/ \E s \in Stores : StoreUpdate(s)
    \/ \E s \in Stores : NC_Evict(s)

\* the record cache of one client alone, every uuid in use
NextGV ==
    \/ \E p \in Procs, u \in UUIDs, ver \in {"", "1"} : GV_Begin(p, u, ver)
    \/ \E p \in Procs : GV_Contains1(p)
    \/ \E p \in Procs : GV_Probe1(p)
    \/ \E p \in Procs : GV_Get1(p)
    \/ \E p \in Procs : GV_Lock(p)
    \/ \E p \in Procs : GV_Contains2(p)
    \/ \E p \in Procs : GV_Probe2(p)
    \/ \E p \in Procs : GV_Get2(p)
    \/ \E p \in Procs : GV_Fetch(p)
    \/ \E p \in Procs : GV_Add(p)
    \/ \E u \in UUIDs : RemoteModify(u)
    \/ \E u \in UUIDs : GV_Evict(u)

\* both caches at once: the workers reconcile one store and one vault record
OneStore == {CHOOSE s \in Stores : TRUE}

OneUUID == {CHOOSE u \in UUIDs : TRUE}

Next ==
    \/ \E p \in Procs, s \in OneStore : NC_Begin(p, s)
    \/ \E p \in Procs : NC_Get1(p)
    \/ \E p \in Procs : NC_Lock(p)
    \/ \E p \in Procs : NC_Get2(p)
    \/ \E p \in Procs : NC_Factory(p)
    \/ \E p \in Procs : NC_Add(p)
    \/ \E s \in OneStore : StoreUpdate(s)
    \/ \E s \in OneStore : NC_Evict(s)
    \/ \E p \in Procs, u \in OneUUID : GV_Begin(p, u, "")
    \/ \E p \in Procs : GV_Contains1(p)
    \/ \E p \in Procs : GV_Probe1(p)
    \/ \E p \in Procs : GV_Get1(p)
    \/ \E p \in Procs : GV_Lock(p)
    \/ \E p \in Procs : GV_Contains2(p)
    \/ \E p \in Procs : GV_Probe2(p)
    \/ \E p \in Procs : GV_Get2(p)
    \/ \E p \in Procs : GV_Fetch(p)
    \/ \E p \in Procs : GV_Add(p)
    \/ \E u \in OneUUID : RemoteModify(u)
    \/ \E u \in OneUUID : GV_Evict(u)

\* the push client and the other systems writing to its backend
NextPS ==
    \/ \E k \in RemoteKeys, v \in PushValues, m \in PushMetas : PS_Begin("push", k, v, m)
    \/ \E k \in RemoteKeys : PS_Begin("delete", k, 0, 0)
    \/ \E k \in RemoteKeys : PS_Begin("exists", k, 0, 0)
    \/ PS_Exists
    \/ PS_PushRead
    \/ PS_Create
    \/ PS_Update
    \/ PS_DeleteRead
    \/ PS_Delete
    \/ \E k \in RemoteKeys, v \in PushValues, mk \in Markers : PS_Foreign(k, v, mk)

SpecNC == Init /\ [][NextNC]_vars

SpecPS == Init /\ [][NextPS]_vars

\* write calls on the clients of the two read-only providers
NextWR ==
    \/ KeyHub_PushSecret
    \/ KeyHub_DeleteSecret
    \/ WebHook_DeleteSecret
    \/ \E remoteKey \in {"", "k"}, storeOk, valueOk, pushOk \in BOOLEAN :
          WebHook_PushSecret(remoteKey, storeOk, valueOk, pushOk)

SpecWR == Init /\ [][NextWR]_vars

\* the admission webhook is called with any object
AdmittedObjects == ExternalSecrets \cup {OtherObject}

\* the objects an update may replace: one of another type, an
\* ExternalSecret without data and dataFrom, and one with a single key
OldObjects ==
    {OtherObject,
     [NoExternalSecret EXCEPT !.kind = "ExternalSecret"],
     [NoExternalSecret EXCEPT !.kind = "ExternalSecret",
                              !.data = <<CHOOSE k \in SecretKeys : TRUE>>]}

\* the objects a further admission request may carry
AdmittedNow == IF vdCount < MaxAdmissions THEN AdmittedObjects ELSE {}

NextVD ==
    \/ \E obj \in AdmittedNow : ValidateCreate(obj)
    \/ \E newObj \in AdmittedNow, oldObj \in OldObjects : ValidateUpdate(oldObj, newObj)
    \/ \E obj \in {es \in AdmittedNow : es.dataFrom = <<>>} : ValidateDelete(obj)

SpecVD == Init /\ [][NextVD]_vars

\* the stores a further validation request may carry
StoresNow == IF vsCount < MaxStoreChecks THEN SecretStores ELSE {}

NextVS ==
    \/ \E b \in Backends, status \in MaintenanceStatuses : ForceRegister(b, status)
    \/ \E store \in StoresNow, order \in CheckOrders, providerErr \in BOOLEAN :
           ValidateStore(store, order, providerErr)

SpecVS == Init /\ [][NextVS]_vars

\* remoteRef.property values: the supported ones, none, and an unknown one
RefProperties == SupportedProperties \cup {"", "nosuch"}

\* the records a further client call may find in KeyHub
RecordsNow == IF kpCount < MaxClientCalls THEN VaultRecords ELSE {}

MatchesNow ==
    IF kpCount < MaxClientCalls THEN SeqsUpTo(FindableRecords, MaxMatches) ELSE {}

NextKP ==
    \/ \E record \in RecordsNow, property \in RefProperties, version \in {"", "1"},
          backendErr \in {"nil", "NoSecretErr"} :
           GetSecret(record, property, version, backendErr)
    \/ \E record \in RecordsNow, property \in RefProperties, version \in {"", "1"},
          backendErr \in {"nil", "NoSecretErr"} :
           GetSecretMap(record, property, version, backendErr)
    \/ \E secrets \in MatchesNow, backendErr \in {"nil", "NoSecretErr"} :
           GetAllSecrets(secrets, backendErr)

SpecKP == Init /\ [][NextKP]_vars

NextKC ==
    \/ \E uuid \in UUIDs, fault \in BackendFaults : GetVaultRecordLastModifiedAt(uuid, fault)
    \/ \E uuid \in UUIDs, fault \in BackendFaults : GetVaultRecord(uuid, fault)
    \/ \E uuid \in UUIDs : KC_RemoteCreate(uuid)
    \/ \E uuid \in UUIDs : KC_RemoteDelete(uuid)

SpecKC == Init /\ [][NextKC]_vars

\* the values a further resolution may be given
ValuesNow == IF rpCount < MaxResolutions THEN JsonValues ELSE {}

NextRP ==
    \E value \in ValuesNow, path \in PropertyPaths : ResolveProperty(value, path)

SpecRP == Init /\ [][NextRP]_vars

\* the tags of the object a further read finds
TagsNow == IF tgCount < MaxTagReads THEN TagMaps ELSE {}

NextTG ==
    \E objType \in TagObjTypes, tags \in TagsNow, property \in TagProperties :
        GetSecretTags(objType, tags, property)

SpecTG == Init /\ [][NextTG]_vars

\* the stores handed to a further provider validation
GenericStoresNow == IF pvCount < MaxProviderChecks THEN GenericStores ELSE {}

NextPV ==
    \E provider \in ProviderKinds, store \in GenericStoresNow :
        ProviderValidateStore(provider, store)

SpecPV == Init /\ [][NextPV]_vars

\* the calls for one vault record, followed over two modifications of it
NextGF ==
    \/ \E p \in Procs, u \in OneUUID : GV_Begin(p, u, "")
    \/ \E p \in Procs : GV_Contains1(p)
    \/ \E p \in Procs : GV_Probe1(p)
    \/ \E p \in Procs : GV_Get1(p)
    \/ \E p \in Procs : GV_Lock(p)
    \/ \E p \in Procs : GV_Contains2(p)
    \/ \E p \in Procs : GV_Probe2(p)
    \/ \E p \in Procs : GV_Get2(p)
    \/ \E p \in Procs : GV_Fetch(p)
    \/ \E p \in Procs : GV_Add(p)
    \/ \E u \in OneUUID : RemoteWrite(u)

SpecGF == Init /\ [][NextGF]_vars

\* two records whose uuids hash to the same one of the 16 mutexes
SharedLockUUIDs == {u \in UUIDs : Bucket(u) = Bucket(<<97>>)}

\* one step of worker p inside getVaultRecord
GV_Step(p) ==
    \/ GV_Contains1(p)
    \/ GV_Probe1(p)
    \/ GV_Get1(p)
    \/ GV_Lock(p)
    \/ GV_Contains2(p)
    \/ GV_Probe2(p)
    \/ GV_Get2(p)
    \/ GV_Fetch(p)
    \/ GV_Add(p)

\* concurrent GetSecret, GetSecretMap and GetAllSecrets calls on one client:
\* each worker makes its getVaultRecord calls one after the other (one for
\* GetSecret and GetSecretMap, one per listed record for GetAllSecrets)
NextGL ==
    \/ \E p \in Procs, u \in SharedLockUUIDs : GV_Begin(p, u, "")
    \/ \E p \in Procs : GV_Step(p)
    \/ \E u \in SharedLockUUIDs : RemoteModify(u)

\* a started call keeps running: the Go scheduler runs every runnable
\* goroutine, every backend call returns, and a goroutine waiting at a
\* sync.Mutex (keymutex.NewHashed) gets it once it is released often enough
\* (the mutex hands over to a starving waiter)
FairnessGL ==
    \A p \in Procs : WF_vars(GV_Step(p)) /\ SF_vars(GV_Lock(p))

SpecGL == Init /\ [][NextGL]_vars /\ FairnessGL

\* the backends a further listing runs against
TotalsNow == IF ivCount < MaxListings THEN 0..MaxRecords ELSE {}

NextIV ==
    \/ \E filter \in RecordFilters, total \in TotalsNow, limit \in ServerLimits :
           ListBegin(filter, total, limit)
    \/ \E fault \in BOOLEAN : ListRequest(fault)

SpecIV == Init /\ [][NextIV]_vars

\* the keys a further getVariables call asks for
VariableKeysNow == IF glCount < MaxVariableReads THEN VariableKeys ELSE {}

NextGB ==
    \E key \in VariableKeysNow, environment \in Environments,
       scope \in Environments, first \in Answers, retry \in Answers :
        getVariables(key, environment, scope, first, retry)

SpecGB == Init /\ [][NextGB]_vars

SpecGV == Init /\ [][NextGV]_vars

Spec == Init /\ [][Next]_vars

(***************************************************************************)
(* Properties                                                              *)
(***************************************************************************)
\* the newClient calls that have returned
NcDone(p) == ncPc[p] = "done"

\* the getVaultRecord calls that have returned
GvDone(p) == gvPc[p] = "done"

\* C1: single flight of Provider.newClient.  For a store whose cache entry was
\* never removed (evicted, or replaced by a client of another
\* resourceVersion) and whose factory never failed, NewClient is invoked at
\* most once per (store, resourceVersion), and every call that has returned
\* for it returned the one client that invocation built.
C1_SingleFlight ==
    \A s \in Stores : s \notin hist.nc =>
        /\ \A v \in Versions : factoryCalls[<<s, v>>] <= 1
        /\ \A p \in Procs :
             (NcDone(p) /\ ncStore[p].id = s) =>
                 /\ ncRet[p].err = "nil"
                 /\ factoryCalls[<<s, ncStore[p].resourceVersion>>] = 1
                 /\ ncRet[p].client = MakeClient(s, ncStore[p].resourceVersion, 1)

\* C1 witness: two workers call newClient for the same cold store at the
\* same resourceVersion; one has built and cached the client and returned,
\* the other passed the lock-free read before that and now holds the lock
\* for its re-check
C1_Witness ==
    \E s \in Stores : \E p, q \in Procs :
        /\ s \notin hist.nc
        /\ factoryCalls[<<s, 1>>] = 1
        /\ ncStore[p] = [id |-> s, resourceVersion |-> 1]
        /\ ncStore[q] = ncStore[p]
        /\ NcDone(q)
        /\ ncRet[q] = [client |-> MakeClient(s, 1, 1), err |-> "nil"]
        /\ ncPc[p] = "get2"
        /\ useMu = {p}
        /\ CacheHit(clientCache, 1, StoreKey(s))

\* the getVaultRecord call of p returned a record it found in the cache
GvHit(p) == gvLog[p].chk1 = "hit" \/ gvLog[p].chk2 = "hit"

\* C2: single flight of getVaultRecord.  For a uuid whose remote
\* lastModifiedAt has not changed, whose entry was never evicted and whose
\* fetch never failed, GetVaultRecord is performed at most once; every call
\* that returned a record either performed that one fetch or found the
\* record in the cache, and all of them returned the same record.
C2_SingleFetch ==
    \A u \in UUIDs : (remote[u] = StartTicks /\ u \notin hist.gv) =>
        /\ fetchCalls[u] <= 1
        /\ \A p \in Procs :
             (GvDone(p) /\ gvRef[p].Key = u /\ gvRet[p].err = "nil") =>
                 /\ fetchCalls[u] = 1
                 /\ gvRet[p].record = VaultRecord(u, StartTicks)
                 /\ gvLog[p].fetched # GvHit(p)

\* C2 witness: two calls for the same cold uuid both skipped the probe and
\* queued on the key's lock; one fetched and cached the record, the other
\* re-checked under the lock and returned the record from the cache
C2_Witness ==
    \E u \in UUIDs : \E p, q \in Procs :
        /\ remote[u] = StartTicks /\ u \notin hist.gv
        /\ gvRef[p].Key = u /\ gvRef[q].Key = u
        /\ GvDone(p) /\ GvDone(q)
        /\ gvLog[p].chk1 = "absent" /\ gvLog[p].wrote
        /\ gvLog[q].chk1 = "absent" /\ gvLog[q].locked /\ gvLog[q].chk2 = "hit"
        /\ gvRet[q] = gvRet[p]
        /\ fetchCalls[u] = 1

\* the step is taken by the recordCache.Get of call p (first or second)
GvGetStep(p) == gvPc[p] \in {"get1", "get2"} /\ gvPc'[p] # gvPc[p]

\* C3: getVaultRecord returns a cached record only when the version made
\* from the token of the probe of the same call, FormatInt(lastModifiedAt.
\* Unix()), equals the version stored with the entry, and then it returns
\* the entry's value; for any other version the Get misses and the call goes
\* on to the fetch; the fetched record overwrites the entry under the
\* record's own version and is returned with a nil error.
C3_VersionedHit ==
    [][\A p \in Procs :
         LET key == RecordKey(gvRef[p].Key)
         IN /\ (GvGetStep(p) /\ gvPc'[p] = "done") =>
                  /\ key \in DOMAIN recordCache
                  /\ recordCache[key].version = VersionOf(gvTok[p])
                  /\ gvRet'[p] = [record |-> recordCache[key].value, err |-> "nil"]
            /\ (GvGetStep(p) /\ gvPc'[p] # "done") =>
                  /\ ~(key \in DOMAIN recordCache
                         /\ recordCache[key].version = VersionOf(gvTok[p]))
                  /\ gvPc'[p] = IF gvPc[p] = "get1" THEN "lock" ELSE "fetch"
            /\ (gvPc[p] = "add" /\ gvPc'[p] = "done") =>
                  /\ gvRet'[p] = [record |-> gvRet[p].record, err |-> "nil"]
                  /\ gvRet[p].record.uuid = gvRef[p].Key
                  /\ recordCache'[key] =
                        [version |-> VersionOf(gvRet[p].record.lastModifiedAt),
                         value |-> gvRet[p].record]
      ]_vars

\* C3 witness: one call returned the cached record on a matching version,
\* and another one, after the remote record was modified, missed on both
\* reads, fetched the new record and overwrote the entry with it
C3_Witness ==
    \E p, q \in Procs :
        /\ gvRef[p].Key = gvRef[q].Key
        /\ GvDone(p) /\ gvLog[p].chk1 = "hit"
        /\ gvRet[p].record.lastModifiedAt = StartTicks
        /\ GvDone(q) /\ gvLog[q].chk1 = "miss" /\ gvLog[q].chk2 = "miss"
        /\ gvLog[q].wrote
        /\ gvRet[q].record.lastModifiedAt > StartTicks
        /\ recordCache[RecordKey(gvRef[q].Key)].value = gvRet[q].record
        /\ gvRef[q].Key \notin hist.gv

\* C4: a newClient call that returns a client returns one built for the
\* store identity and the resourceVersion of the store it was given, never
\* one cached under another resourceVersion; when it had to build the client
\* (the cache held none for that version) it leaves the cache entry of the
\* identity holding the new client under the new resourceVersion.
C4_CurrentVersionOnly ==
    [][\A p \in Procs :
         LET s == ncStore[p].id
             v == ncStore[p].resourceVersion
         IN /\ (ncPc[p] # "done" /\ ncPc'[p] = "done" /\ ncRet'[p].err = "nil") =>
                  /\ ncRet'[p].client.store = s
                  /\ ncRet'[p].client.version = v
            /\ (ncPc[p] = "add" /\ ncPc'[p] = "done") =>
                  /\ ~CacheHit(clientCache, v, StoreKey(s))
                  /\ ncRet'[p].client.serial = factoryCalls[<<s, v>>]
                  /\ clientCache'[StoreKey(s)] =
                        [version |-> v, value |-> ncRet'[p].client]
      ]_vars

\* C4 witness: the store was updated after a client had been cached for it;
\* the next call built a new client and the entry now holds it under the
\* new resourceVersion
C4_Witness ==
    \E s \in Stores : \E p \in Procs :
        /\ storeVersion[s] > 1
        /\ factoryCalls[<<s, 1>>] = 1
        /\ factoryCalls[<<s, storeVersion[s]>>] = 1
        /\ NcDone(p)
        /\ ncStore[p] = [id |-> s, resourceVersion |-> storeVersion[s]]
        /\ ncRet[p] = [client |-> MakeClient(s, storeVersion[s], 1), err |-> "nil"]
        /\ CacheHit(clientCache, storeVersion[s], StoreKey(s))
        /\ CacheValue(clientCache, StoreKey(s)) = ncRet[p].client
        /\ \E q \in Procs : NcDone(q) /\ ncRet[q].client = MakeClient(s, 1, 1)

\* C5: when NewClient fails inside newClient the call returns the error and
\* no client, adds nothing to the client cache and releases useMu; the
\* cache never holds a failed result, so a later call for the same
\* (identity, version) misses on both reads and invokes NewClient again.
C5_FailureNotCached ==
    [][\A p \in Procs :
         LET s == ncStore[p].id
             v == ncStore[p].resourceVersion
         IN /\ (ncPc[p] = "factory" /\ ncPc'[p] = "done") =>
                  /\ ncRet'[p] = [client |-> NilClient, err |-> "NewClient failed"]
                  /\ clientCache' = clientCache
                  /\ useMu = {p} /\ useMu' = {}
                  /\ factoryCalls'[<<s, v>>] = factoryCalls[<<s, v>>] + 1
            /\ \A k \in DOMAIN clientCache' : clientCache'[k].value # NilClient
            /\ (ncPc[p] = "get2" /\ ncPc'[p] # "get2"
                  /\ ~CacheHit(clientCache, v, StoreKey(s))) => ncPc'[p] = "factory"
      ]_vars

\* C5 witness: NewClient failed for a call, which returned the error; a
\* later call for the same store and resourceVersion invoked NewClient
\* again (the second invocation) and got its client
C5_Witness ==
    \E p, q \in Procs :
        /\ NcDone(p) /\ ncRet[p].err = "NewClient failed"
        /\ ncStore[q] = ncStore[p]
        /\ factoryCalls[<<ncStore[p].id, ncStore[p].resourceVersion>>] > 1
        /\ ncRet[q].client =
              MakeClient(ncStore[p].id, ncStore[p].resourceVersion,
                         factoryCalls[<<ncStore[p].id, ncStore[p].resourceVersion>>])
        /\ NcDone(q) /\ ncRet[q].err = "nil"
        /\ useMu = {}
        /\ clientCache = [k \in {StoreKey(ncStore[p].id)} |->
                            [version |-> ncStore[p].resourceVersion,
                             value |-> ncRet[q].client]]

\* call p waits at useMu.Lock() for call q, which holds the mutex while its
\* NewClient runs
NcWaitsForFactoryOf(p, q) ==
    /\ ncPc[p] = "lock"
    /\ ncPc[q] = "factory"
    /\ q \in useMu
    /\ ~ENABLED NC_Lock(p)

\* C6: newClient calls for different store identities do not block each
\* other: a call that missed the cache never waits for the NewClient in
\* progress of a call that works on another identity.
C6_NoCrossStoreBlocking ==
    \A p, q \in Procs :
        NcWaitsForFactoryOf(p, q) => ncStore[p].id = ncStore[q].id

\* C6, what the code does: whoever holds useMu during NewClient, for
\* whichever store, every other call that missed waits for it
C6_GlobalLock ==
    \A p, q \in Procs :
        (p # q /\ ncPc[p] = "lock" /\ ncPc[q] \in {"get2", "factory", "add"}) =>
            /\ useMu = {q}
            /\ ~ENABLED NC_Lock(p)

\* call q is between LockKey and the deferred UnlockKey
GvInCritical(q) == gvPc[q] \in {"contains2", "probe2", "get2", "fetch", "add"}

\* call p waits at c.useMu.LockKey
GvBlocked(p) == gvPc[p] = "lock" /\ ~ENABLED GV_Lock(p)

C8_FetchOnlyAfterTwoProbes ==
    \A p \in Procs :
        gvLog[p].fetched =>
            /\ gvLog[p].chk1 = "miss"
            /\ gvLog[p].locked
            /\ gvLog[p].chk2 = "miss"

\* C8 amended: every getVaultRecord call that performs the expensive fetch
\* has checked the cache before taking the lock and again after acquiring
\* it; a check is recordCache.Contains, followed only when the key is in the
\* cache by the freshness probe and the Get with its token, which missed.
\* For a key that is not in the cache the fetch happens with no probe.
C8_FetchOnlyAfterTwoChecks ==
    \A p \in Procs :
        /\ (gvPc[p] = "fetch" \/ gvLog[p].fetched) =>
              /\ gvLog[p].chk1 \in {"absent", "miss"}
              /\ gvLog[p].locked
              /\ gvLog[p].chk2 \in {"absent", "miss"}
        /\ (gvLog[p].chk1 = "miss" \/ gvLog[p].chk2 = "miss") =>
              gvTok[p] >= StartTicks

\* C8 witness: one call fetched a key that was in the cache with a stale
\* version, after two probes and two missed reads; another call fetched a
\* cold key after two Contains checks and no probe at all
C8_Witness ==
    \E p, q \in Procs :
        /\ gvLog[p].fetched /\ gvLog[p].chk1 = "miss" /\ gvLog[p].chk2 = "miss"
        /\ gvLog[q].fetched /\ gvLog[q].chk1 = "absent" /\ gvLog[q].chk2 = "absent"
        /\ gvTok[q] = 0

\* the step makes call p return an error
GvReturnsError(p) ==
    /\ gvPc'[p] = "done"
    /\ gvRet'[p].err # "nil"
    /\ (gvPc[p] # "done" \/ calls'[p] # calls[p])

\* C9: a getVaultRecord call that returns an error (the ref names a version,
\* a freshness probe failed, the fetch failed; a cancelled context fails the
\* backend call it is passed to) has written nothing to the record cache:
\* the returning step leaves the cache as it is, the call made no Add
\* before, and the mutex it took is released.  The only steps that change
\* the cache are the Add of a call that returns its record with a nil error
\* and the eviction of an entry.
C9_ErrorLeavesCache ==
    [][/\ \A p \in Procs :
            GvReturnsError(p) =>
                /\ recordCache' = recordCache
                /\ ~gvLog'[p].wrote
                /\ gvRet'[p].record = NilRecord
                /\ \A b \in Buckets : p \notin kmHolder'[b]
       /\ (recordCache' # recordCache) =>
            \/ \E u \in UUIDs : recordCache' = CacheRemove(recordCache, RecordKey(u))
            \/ \E p \in Procs :
                 /\ gvPc[p] = "add" /\ gvPc'[p] = "done"
                 /\ gvRet'[p].err = "nil"
                 /\ recordCache' = CacheAdd(recordCache,
                                            VersionOf(gvRet'[p].record.lastModifiedAt),
                                            RecordKey(gvRef[p].Key), gvRet'[p].record)
      ]_vars

\* C9 witness: a call took the key's lock, found a stale entry and its fetch
\* failed: it returned the error, the entry is still the stale one and
\* every mutex is free
C9_Witness ==
    \E p \in Procs :
        /\ GvDone(p) /\ gvRet[p].err = "NoSecretErr"
        /\ gvLog[p].locked /\ gvLog[p].fetched /\ gvLog[p].chk2 = "miss"
        /\ CacheHit(recordCache, VersionOf(StartTicks), RecordKey(gvRef[p].Key))
        /\ remote[gvRef[p].Key] > StartTicks
        /\ \A b \in Buckets : kmHolder[b] = {}

\* the errors the backend calls of the two lookups can return
BackendErrors == {"NewClient failed", "NoSecretErr"}

\* C10: whenever a cache entry is evicted, also between a Contains and the
\* following Get or between the lock-free read and the re-check under the
\* lock, a newClient or getVaultRecord call for the key ends with a valid
\* result: with a nil error it returns a client built for the store and the
\* ResourceVersion it was asked for, or the record of the uuid it was asked
\* for, at the version of its freshness token when served from the cache and
\* freshly fetched (and cached again) otherwise; it never returns a nil value
\* with a nil error, and the only errors are those of a backend call
C10_EvictionTransparent ==
    /\ \A p \in Procs :
         NcDone(p) =>
            IF ncRet[p].err = "nil"
            THEN /\ ncRet[p].client # NilClient
                 /\ ncRet[p].client.store = ncStore[p].id
                 /\ ncRet[p].client.version = ncStore[p].resourceVersion
            ELSE ncRet[p].err \in BackendErrors
    /\ \A p \in Procs :
         (GvDone(p) /\ gvRef[p].Version = "") =>
            IF gvRet[p].err = "nil"
            THEN /\ gvRet[p].record # NilRecord
                 /\ gvRet[p].record.uuid = gvRef[p].Key
                 /\ IF GvHit(p)
                    THEN VersionOf(gvRet[p].record.lastModifiedAt) = VersionOf(gvTok[p])
                    ELSE /\ gvLog[p].fetched /\ gvLog[p].wrote
                         /\ gvRet[p].record.lastModifiedAt >= gvTok[p]
            ELSE gvRet[p].err \in BackendErrors

\* C10 witness: one call lost the client entry between its two reads and
\* returned a rebuilt client, another lost the record entry between Contains
\* and Get and returned a freshly fetched record, both without error
C10_Witness ==
    /\ \E p \in Procs :
         /\ NcDone(p) /\ p \in hist.ncRaced
         /\ ncRet[p].err = "nil" /\ ncRet[p].client.serial = 2
    /\ \E p \in Procs :
         /\ GvDone(p) /\ gvLog[p].raced /\ gvLog[p].chk1 = "miss"
         /\ gvRet[p].err = "nil" /\ gvLog[p].fetched
         /\ gvRet[p].record = VaultRecord(gvRef[p].Key, remote[gvRef[p].Key])

\* the error of an ownership conflict
ErrNotManaged == "not managed by external-secrets"

\* the call in progress returns with this step
PsReturns == psPc # "done" /\ psPc' = "done"

PsIssued(kind, k) ==
    {i \in 1..Len(psTrace) : psTrace[i].req.key = k /\ psTrace[i].wrote = kind}

\* finished call i is a Push of value v and metadata m to key k
PsIsPush(i, k, v, m) ==
    /\ psTrace[i].req.op = "push" /\ psTrace[i].req.key = k
    /\ psTrace[i].req.value = v /\ psTrace[i].req.meta = m

\* C12: a Push that finds the object owned and already holding the value
\* and metadata it was given succeeds without a backend write; so, with no
\* backend failure and no foreign write, a Push repeated right after a
\* successful Push of the same value and metadata writes nothing, and the
\* sequence Push(v1), Push(v1), Push(v2) on a new key issues exactly one
\* create and one update
C12_PushIdempotent ==
    /\ \A i \in 1..Len(psTrace) :
         LET e == psTrace[i]
         IN (/\ e.req.op = "push" /\ e.read.status = "found"
             /\ Owned(e.read.obj) /\ Unchanged(e.read.obj, e.req))
            => e.err = "nil" /\ e.wrote = "none"
    /\ psFaults = 0 =>
         \A i \in 1..(Len(psTrace) - 1) :
            (/\ psTrace[i].req.op = "push" /\ psTrace[i].err = "nil"
             /\ psTrace[i + 1].req = psTrace[i].req)
            => psTrace[i + 1].err = "nil" /\ psTrace[i + 1].wrote = "none"
    /\ psFaults = 0 =>
         \A k \in RemoteKeys, v1, v2 \in PushValues, m1, m2 \in PushMetas :
            (/\ Len(psTrace) = 3
             /\ ObjType(k) \in SupportedTypes
             /\ <<v1, m1>> # <<v2, m2>>
             /\ PsIsPush(1, k, v1, m1) /\ PsIsPush(2, k, v1, m1)
             /\ PsIsPush(3, k, v2, m2))
            => /\ \A i \in 1..3 : psTrace[i].err = "nil"
               /\ PsIssued("create", k) = {1}
               /\ PsIssued("update", k) = {3}
               /\ PsIssued("delete", k) = {}

\* C12 witness: Push(1), Push(1), Push(2) on the new key "key/keyname":
\* a create, no write, an update; the key holds the last value
C12_Witness ==
    /\ Len(psTrace) = 3 /\ psFaults = 0
    /\ PsIsPush(1, KeyName, 1, 0) /\ PsIsPush(2, KeyName, 1, 0)
    /\ PsIsPush(3, KeyName, 2, 0)
    /\ psTrace[1].read.status = "notfound"
    /\ <<psTrace[1].wrote, psTrace[2].wrote, psTrace[3].wrote>>
         = <<"create", "none", "update">>
    /\ vault[KeyName] = RemoteObject(2, 0, ManagerLabel)

\* the step is a write of another system
PsForeignStep == psFaults' = psFaults + 1 /\ psTrace' = psTrace /\ psPc' = psPc

\* C13: every object Push writes carries the ownership marker.  A Push that
\* found the key absent creates the object with the value and metadata of
\* the request and managed-by = external-secrets; a Push that found an owned
\* object with another value or other metadata (expiry) updates it and the
\* marker stays; the backend changes in no other way than by these writes,
\* by a Delete and by the writes of other systems, so as long as no other
\* system wrote every object present carries the marker
C13_PushedObjectsOwned ==
    [][/\ (PsReturns /\ psWrote' = "create" /\ psRet'.err = "nil")
          => /\ psRead.status = "notfound"
             /\ vault'[psOp.key] = RemoteObject(psOp.value, psOp.meta, ManagerLabel)
       /\ (PsReturns /\ psWrote' = "update" /\ psRet'.err = "nil")
          => /\ psRead.status = "found" /\ Owned(psRead.obj)
             /\ ~Unchanged(psRead.obj, psOp)
             /\ vault'[psOp.key] = RemoteObject(psOp.value, psOp.meta, ManagerLabel)
       /\ \A k \in RemoteKeys :
            (vault'[k] # vault[k] /\ ~PsForeignStep)
            => /\ PsReturns /\ psOp.key = k /\ psRet'.err = "nil"
               /\ psWrote' \in {"create", "update", "delete"}
               /\ (vault'[k].present => Owned(vault'[k]))
               /\ (vault'[k].present <=> psOp.op = "push")
       /\ (psFaults' = 0) => \A k \in RemoteKeys : vault'[k].present => Owned(vault'[k])
      ]_vars

\* C13 witness: a secret was created by Push and then pushed again with the
\* same value and a new expiry: the second Push updated it and the object
\* holds the new expiry and still the marker
C13_Witness ==
    /\ Len(psTrace) >= 2
    /\ PsIsPush(1, SecretName, 1, 0) /\ psTrace[1].wrote = "create"
    /\ PsIsPush(2, SecretName, 1, 1) /\ psTrace[2].wrote = "update"
    /\ psTrace[2].read.obj = RemoteObject(1, 0, ManagerLabel)
    /\ psTrace[2].err = "nil"
    /\ vault[SecretName] = RemoteObject(1, 1, ManagerLabel)

\* C14: a Delete that finds the key absent (the read returns NotFound)
\* succeeds without a backend call, so a Delete repeated after a successful
\* Delete succeeds too; a Delete that finds an owned object issues the
\* backend delete and returns its result: nil with the object gone, or the
\* backend's error with the object still there
C14_DeleteIdempotent ==
    [][/\ (PsReturns /\ psOp.op = "delete" /\ psRead'.status = "notfound")
          => psRet'.err = "nil" /\ psWrote' = "none" /\ vault' = vault
       /\ (psOp.op = "delete" /\ psRead'.status = "found" /\ Owned(psRead'.obj))
          => psPc' \in {"delete", "done"}
       /\ (PsReturns /\ psOp.op = "delete" /\ psRead'.status = "found"
           /\ Owned(psRead'.obj))
          => /\ psWrote' = "delete"
             /\ \/ psRet'.err = "nil" /\ ~vault'[psOp.key].present
                \/ /\ psRet'.err = "No Permissions" /\ vault' = vault
                   /\ psFaults' = psFaults + 1
       /\ (psFaults' = 0) =>
            \A i \in 1..(Len(psTrace') - 1) :
               (/\ psTrace'[i].req.op = "delete" /\ psTrace'[i].err = "nil"
                /\ psTrace'[i + 1].req = psTrace'[i].req)
               => /\ psTrace'[i + 1].err = "nil"
                  /\ psTrace'[i + 1].read.status = "notfound"
      ]_vars

\* C14 witness: a certificate was created by Push, deleted (the backend
\* delete was issued) and deleted again (NotFound): both Deletes succeeded
C14_Witness ==
    /\ Len(psTrace) = 3
    /\ PsIsPush(1, CertName, 1, 0) /\ psTrace[1].wrote = "create"
    /\ \A i \in 2..3 :
         /\ psTrace[i].req.op = "delete" /\ psTrace[i].req.key = CertName
         /\ psTrace[i].err = "nil"
    /\ psTrace[2].read.status = "found" /\ psTrace[2].wrote = "delete"
    /\ psTrace[3].read.status = "notfound" /\ psTrace[3].wrote = "none"
    /\ ~vault[CertName].present

\* C15: Exists returns (false, nil) when the read reports NotFound, (true,
\* nil) when the object is present, with or without the ownership marker,
\* and an error, never (false, nil), when the read fails in another way; it
\* issues no backend write
C15_ExistsResult ==
    \A i \in 1..Len(psTrace) :
        LET e == psTrace[i]
        IN (e.req.op = "exists" /\ ObjType(e.req.key) \in SupportedTypes) =>
              /\ e.wrote = "none"
              /\ e.read.status \in {"notfound", "found", "error"}
              /\ (e.read.status = "notfound") => (~e.exists /\ e.err = "nil")
              /\ (e.read.status = "found") => (e.exists /\ e.err = "nil")
              /\ (e.read.status = "error") => (~e.exists /\ e.err = "unexpected api error")

\* C15 witness: Exists on a key that is absent returned false; after another
\* system stored an object without the marker under it, Exists returned true
C15_Witness ==
    /\ Len(psTrace) >= 2
    /\ \A i \in 1..2 :
         psTrace[i].req.op = "exists" /\ psTrace[i].req.key = SecretName
    /\ psTrace[1].read.status = "notfound" /\ ~psTrace[1].exists
    /\ psTrace[2].read.status = "found" /\ psTrace[2].read.obj.marker = ""
    /\ psTrace[2].exists /\ psTrace[2].err = "nil"

\* C16: every PushSecret and DeleteSecret call on a client of a provider
\* whose Capabilities() is ReadOnly returns an error and sends nothing to
\* the backend
C16_ReadOnlyNeverWrites ==
    \A i \in 1..Len(wrTrace) :
        Capabilities(wrTrace[i].provider) = "ReadOnly"
            => wrTrace[i].err # "nil" /\ ~wrTrace[i].sent

\* the write calls of the KeyHub client, and DeleteSecret of the Webhook
\* client, fail with "not implemented" and send nothing
C16_NotImplementedWrites ==
    \A i \in 1..Len(wrTrace) :
        (wrTrace[i].provider = "keyhub" \/ wrTrace[i].op = "DeleteSecret")
            => wrTrace[i].err = "not implemented" /\ ~wrTrace[i].sent


(***************************************************************************)
(* Claims about the ExternalSecret admission validator.                    *)
(***************************************************************************)
\* an ExternalSecret went through validateExternalSecret
VdValidated ==
    /\ vdCall.op \in {"create", "update"}
    /\ vdCall.obj.kind = "ExternalSecret"

Occurrences(errs, msg) == Cardinality({i \in DOMAIN errs : errs[i] = msg})

\* how many of extract, find and sourceRef.generatorRef an entry sets
ExclusiveSet(ref) ==
    (IF ref.extract THEN 1 ELSE 0) + (IF ref.find THEN 1 ELSE 0)
    + (IF ref.sourceRef.set /\ ref.sourceRef.generatorRef THEN 1 ELSE 0)

\* how often the rule behind a message is violated by an ExternalSecret
Violations(es, msg) ==
    CASE msg = ErrDeleteNotOwner ->
           IF es.deletionPolicy = "Delete" /\ es.creationPolicy \in {"Merge", "None"}
           THEN 1 ELSE 0
      [] msg = ErrMergeNone ->
           IF es.deletionPolicy = "Merge" /\ es.creationPolicy = "None"
           THEN 1 ELSE 0
      [] msg = ErrNoData ->
           IF es.data = <<>> /\ es.dataFrom = <<>> THEN 1 ELSE 0
      [] msg = ErrSameTime ->
           Cardinality({i \in DOMAIN es.dataFrom : ExclusiveSet(es.dataFrom[i]) >= 2})
      [] msg = ErrNothingSet ->
           Cardinality({i \in DOMAIN es.dataFrom :
               /\ ~es.dataFrom[i].extract
               /\ ~es.dataFrom[i].find
               /\ ~es.dataFrom[i].sourceRef.set})
      [] msg = ErrSourceRef ->
           Cardinality({i \in DOMAIN es.dataFrom :
               /\ es.dataFrom[i].sourceRef.set
               /\ ~es.dataFrom[i].sourceRef.generatorRef
               /\ ~es.dataFrom[i].sourceRef.storeRef})
      [] msg \in {ErrDuplicate(k) : k \in SecretKeys} ->
           IF es.deletionPolicy # "Retain" THEN 0
           ELSE Cardinality({j \in DOMAIN es.data :
                    /\ ErrDuplicate(es.data[j]) = msg
                    /\ \E i \in 1..(j - 1) : es.data[i] = es.data[j]})
      [] OTHER -> 0

RuleMessages ==
    {ErrDeleteNotOwner, ErrMergeNone, ErrNoData, ErrSameTime, ErrNothingSet,
     ErrSourceRef} \cup {ErrDuplicate(k) : k \in SecretKeys}

\* C17: the error returned by validateExternalSecret carries the message of
\* every rule the ExternalSecret violates, once per violation (the policy
\* rules, the data-or-dataFrom rule, each per-entry rule for each dataFrom
\* entry, each duplicate secretKey), carries nothing else, and is nil exactly
\* when no rule is violated.
C17_ErrorsAggregated ==
    VdValidated =>
        /\ \A msg \in RuleMessages :
               Occurrences(vdRet, msg) = Violations(vdCall.obj, msg)
        /\ \A i \in DOMAIN vdRet : vdRet[i] \in RuleMessages
        /\ (vdRet = <<>>) <=> (\A msg \in RuleMessages : Violations(vdCall.obj, msg) = 0)

\* one ExternalSecret violating a policy rule and two per-entry rules in
\* two different dataFrom entries: all three messages are returned
C17_Witness ==
    /\ VdValidated
    /\ Occurrences(vdRet, ErrDeleteNotOwner) = 1
    /\ Occurrences(vdRet, ErrSameTime) = 1
    /\ Occurrences(vdRet, ErrNothingSet) = 1
    /\ Len(vdRet) = 3
    /\ Len(vdCall.obj.dataFrom) = 2


\* C18 as stated: every validated ExternalSecret with deletionPolicy=Delete
\* and a creationPolicy other than Owner is rejected.
C18_DeleteRequiresOwner ==
    (/\ VdValidated
     /\ vdCall.obj.deletionPolicy = "Delete"
     /\ vdCall.obj.creationPolicy # "Owner") => vdRet # <<>>

\* what validatePolicies does enforce: deletionPolicy=Delete is rejected
\* with creationPolicy Merge or None
C18_DeleteRejectsMergeNone ==
    (/\ VdValidated
     /\ vdCall.obj.deletionPolicy = "Delete"
     /\ vdCall.obj.creationPolicy \in {"Merge", "None"})
        => Occurrences(vdRet, ErrDeleteNotOwner) = 1

\* C19: every validated ExternalSecret with deletionPolicy=Merge and
\* creationPolicy=None is rejected with the Merge/None message, whatever
\* its data and dataFrom contain.
C19_MergeNoneRejected ==
    (/\ VdValidated
     /\ vdCall.obj.deletionPolicy = "Merge"
     /\ vdCall.obj.creationPolicy = "None")
        => (vdRet # <<>> /\ Occurrences(vdRet, ErrMergeNone) = 1)

\* a Merge/None ExternalSecret whose data and dataFrom are otherwise valid
\* is rejected for the policy alone
C19_Witness ==
    /\ VdValidated
    /\ vdCall.obj.deletionPolicy = "Merge"
    /\ vdCall.obj.creationPolicy = "None"
    /\ Len(vdCall.obj.data) = MaxData
    /\ Len(vdCall.obj.dataFrom) = MaxDataFrom
    /\ vdRet = <<ErrMergeNone>>

\* how many of extract, find and sourceRef an entry sets
SourcesSet(ref) ==
    (IF ref.extract THEN 1 ELSE 0) + (IF ref.find THEN 1 ELSE 0)
    + (IF ref.sourceRef.set THEN 1 ELSE 0)

EntryAllowed(ref) ==
    /\ ref.extract \/ ref.find \/ ref.sourceRef.set
    /\ ExclusiveSet(ref) <= 1
    /\ ref.sourceRef.set => (ref.sourceRef.generatorRef \/ ref.sourceRef.storeRef)

PerEntryMessages == {ErrSameTime, ErrNothingSet, ErrSourceRef}

EmptySourceRef(ref) ==
    ref.sourceRef.set /\ ~ref.sourceRef.generatorRef /\ ~ref.sourceRef.storeRef

\* C21: validateExternalSecret rejects an ExternalSecret for every dataFrom
\* entry whose sourceRef is set without generatorRef and storeRef, with one
\* sourceRef message per such entry, and returns no sourceRef message when
\* no entry is of that kind, in particular for entries without sourceRef.
C21_SourceRefNeedsTarget ==
    VdValidated =>
        LET bad == {i \in DOMAIN vdCall.obj.dataFrom :
                        EmptySourceRef(vdCall.obj.dataFrom[i])}
        IN /\ Occurrences(vdRet, ErrSourceRef) = Cardinality(bad)
           /\ (bad # {}) => vdRet # <<>>
           /\ (\A i \in DOMAIN vdCall.obj.dataFrom : ~vdCall.obj.dataFrom[i].sourceRef.set)
                  => Occurrences(vdRet, ErrSourceRef) = 0

\* one entry with an empty sourceRef next to one without sourceRef: the
\* sourceRef message is returned once
C21_Witness ==
    /\ VdValidated
    /\ Len(vdCall.obj.dataFrom) = 2
    /\ \E i, j \in DOMAIN vdCall.obj.dataFrom :
           /\ EmptySourceRef(vdCall.obj.dataFrom[i])
           /\ ~vdCall.obj.dataFrom[j].sourceRef.set
           /\ vdCall.obj.dataFrom[j].extract
    /\ vdRet = <<ErrSourceRef>>

\* the positions of data whose secretKey already occurred before
RepeatedOccurrences(data) ==
    {j \in DOMAIN data : \E i \in 1..(j - 1) : data[i] = data[j]}

DuplicateMessages == {ErrDuplicate(k) : k \in SecretKeys}

DuplicateErrors(errs) == {i \in DOMAIN errs : errs[i] \in DuplicateMessages}

\* C22: under deletionPolicy=Retain the validator returns one duplicate
\* error per repeated occurrence of a data secretKey, naming that key, so an
\* accepted ExternalSecret has pairwise distinct secretKeys; under any other
\* deletionPolicy it returns no duplicate error.
C22_DuplicateKeysUnderRetain ==
    VdValidated =>
        LET es == vdCall.obj
        IN /\ es.deletionPolicy = "Retain" =>
                 /\ Cardinality(DuplicateErrors(vdRet))
                        = Cardinality(RepeatedOccurrences(es.data))
                 /\ \A k \in SecretKeys :
                        Occurrences(vdRet, ErrDuplicate(k))
                            = Cardinality({j \in RepeatedOccurrences(es.data) : es.data[j] = k})
                 /\ (vdRet = <<>>) =>
                        \A i, j \in DOMAIN es.data : (i # j) => (es.data[i] # es.data[j])
           /\ es.deletionPolicy # "Retain" => DuplicateErrors(vdRet) = {}

\* three data entries with one secretKey under Retain: two duplicate errors
C22_Witness ==
    /\ VdValidated
    /\ vdCall.obj.deletionPolicy = "Retain"
    /\ vdCall.obj.data = <<"a", "a", "a">>
    /\ vdRet = <<ErrDuplicate("a"), ErrDuplicate("a")>>

\* duplicate secretKeys under a deletionPolicy other than Retain are accepted
C22_WitnessOtherPolicy ==
    /\ VdValidated
    /\ vdCall.obj.deletionPolicy = "Merge"
    /\ vdCall.obj.data = <<"b", "b">>
    /\ vdRet = <<>>


(***************************************************************************)
(* Claims about the SecretStore admission validator.                       *)
(***************************************************************************)
BackendsSet(store) == Cardinality(store.provider)

\* every namespace regex of the store compiles
ConditionsCompile(store) ==
    \A c \in DOMAIN store.conditions :
        \A r \in DOMAIN store.conditions[c] : store.conditions[c][r]

C23_WitnessNone ==
    /\ vsCall.called
    /\ BackendsSet(vsCall.store) = 0
    /\ vsRet.err = <<ErrBackendCount(0)>>

\* one registered backend with conditions that compile is accepted
C23_WitnessAccepted ==
    /\ vsCall.called
    /\ BackendsSet(vsCall.store) = 1
    /\ Len(vsCall.store.conditions) = MaxConditions
    /\ vsRet.err = <<>>


(***************************************************************************)
(* Claims about the KeyHub client's GetSecret, GetSecretMap, GetAllSecrets *)
(***************************************************************************)
\* GetAllSecrets has returned a result for the records matching the query
GasReturned ==
    /\ kpCall.fn = "GetAllSecrets"
    /\ kpRet.err = "nil"

\* the properties of a record that fetching all properties returns
FetchAllProperties(record) ==
    (record.set \cap {"link", "username", "password"})
    \cup (IF record.file # Nil THEN {"file"} ELSE {})

\* C24 as stated: the keys of GetAllSecrets are the bare property names when
\* exactly one record matches, and "<record name>/<property>" for every
\* property of every record when two or more records match.
C24_NamingByMatchCount ==
    GasReturned =>
        LET secrets == kpCall.records
        IN /\ Len(secrets) = 1 =>
                 DOMAIN kpRet.data = {<<p>> : p \in FetchAllProperties(secrets[1])}
           /\ Len(secrets) >= 2 =>
                 DOMAIN kpRet.data =
                     UNION {{SlashKey(secrets[i].name, p) :
                                p \in FetchAllProperties(secrets[i])} : i \in DOMAIN secrets}

\* what GetAllSecrets does: a record with exactly one returned property is
\* keyed by the record name, any other record by "<record name>/<property>",
\* however many records match
C24_NamingByPropertyCount ==
    GasReturned =>
        LET secrets == kpCall.records
        IN DOMAIN kpRet.data =
               UNION {IF Cardinality(FetchAllProperties(secrets[i])) = 1
                      THEN {secrets[i].name}
                      ELSE {SlashKey(secrets[i].name, p) :
                                p \in FetchAllProperties(secrets[i])} : i \in DOMAIN secrets}

\* one matching record with two properties is keyed "<name>/<property>"
C24_SingleMatchSlashKeys ==
    /\ GasReturned
    /\ Len(kpCall.records) = 1
    /\ kpCall.records[1].name = <<"A">>
    /\ DOMAIN kpRet.data = {<<"A", "/", "link">>, <<"A", "/", "password">>}


\* GetSecret was called without a version and getVaultRecord returned the record
GetSecretFetched ==
    /\ kpCall.fn = "GetSecret"
    /\ kpCall.version = ""
    /\ kpCall.backendErr = "nil"

\* C27: GetSecret with an empty property returns the password of the record
\* without error: its value when the record has a password, and the empty
\* value when it has none; this is what naming "password" returns.
C27_EmptyPropertyIsPassword ==
    (GetSecretFetched /\ kpCall.property = "") =>
        LET record == kpCall.records[1]
        IN /\ kpRet.err = "nil"
           /\ kpRet.value = IF "password" \in record.set
                            THEN ValueOf("password") ELSE EmptyValue

\* a record with a password and other properties, read with no property
C27_Witness ==
    /\ GetSecretFetched
    /\ kpCall.property = ""
    /\ {"password", "username", "link"} \subseteq kpCall.records[1].set
    /\ kpRet = [value |-> <<"password">>, data |-> EmptyMap, err |-> "nil"]


\* the property is empty in KeyHub: its getter returns nil
PropertyEmpty(record, property) ==
    IF property = "file" THEN record.file = Nil
    ELSE IF property = "name" THEN FALSE
    ELSE property \notin record.set

\* C29 as stated: GetSecret naming a supported property that is empty in
\* KeyHub returns the empty value without error, and fetching all
\* properties (GetSecretMap without property) returns only properties that
\* are not empty.
C29_EmptyPropertyEmptyValue ==
    /\ (/\ GetSecretFetched
        /\ kpCall.property \in SupportedProperties
        /\ PropertyEmpty(kpCall.records[1], kpCall.property))
           => (kpRet.err = "nil" /\ kpRet.value = EmptyValue)
    /\ (/\ kpCall.fn = "GetSecretMap"
        /\ kpCall.property = ""
        /\ kpRet.err = "nil")
           => \A k \in DOMAIN kpRet.data : ~PropertyEmpty(kpCall.records[1], k)

\* the properties for which GetSecret returns an empty value when nil
EmptyValueProperties == {"color", "link", "username", "password", "filename"}

\* what the client does: an empty value for color, link, username, password
\* and filename, the invalid-property error for an empty file, enddate,
\* comment, lastModifiedBy or lastModifiedAt; fetching all properties
\* returns only non-empty ones
C29_EmptyValueOrInvalidProperty ==
    /\ (/\ GetSecretFetched
        /\ kpCall.property \in SupportedProperties
        /\ PropertyEmpty(kpCall.records[1], kpCall.property))
           => IF kpCall.property \in EmptyValueProperties
              THEN kpRet.err = "nil" /\ kpRet.value = EmptyValue
              ELSE kpRet.err = ErrInvalidProperty(kpCall.property)
    /\ (/\ kpCall.fn = "GetSecretMap"
        /\ kpCall.property = ""
        /\ kpRet.err = "nil")
           => \A k \in DOMAIN kpRet.data : ~PropertyEmpty(kpCall.records[1], k)


\* C28: a GetSecret / GetSecretMap call whose ref names a version returns
\* at once with the version error and no record; the step makes no backend
\* call, takes no lock and leaves the record cache as it is, and the call
\* takes no later step.
C28_VersionRefused ==
    [][\A p \in Procs :
          /\ (calls'[p] # calls[p] /\ gvRef'[p].Version # "") =>
                 /\ gvPc'[p] = "done"
                 /\ gvRet'[p] = [record |-> NilRecord, err |-> "version not supported"]
                 /\ recordCache' = recordCache
                 /\ kmHolder' = kmHolder
                 /\ fetchCalls' = fetchCalls
                 /\ gvTok'[p] = 0
          /\ gvRef'[p].Version # "" =>
                 /\ gvPc'[p] = "done"
                 /\ gvLog'[p] = NewLog
                 /\ \A b \in Buckets : p \notin kmHolder'[b]]_vars

\* a call with a version is refused while the cache holds a record that an
\* earlier call stored
C28_Witness ==
    \E p \in Procs :
        /\ gvPc[p] = "done"
        /\ gvRef[p].Version = "1"
        /\ gvRet[p].err = "version not supported"
        /\ CacheContains(recordCache, RecordKey(gvRef[p].Key))


\* GetSecret and GetSecretMap of the current client both refuse a version
\* before they look at the record or at the backend's answer
C28_BothCallsRefuse ==
    (kpCall.fn \in {"GetSecret", "GetSecretMap"} /\ kpCall.version # "")
        => kpRet = [value |-> <<>>, data |-> EmptyMap, err |-> ErrVersion]


(***************************************************************************)
(* Claims about the KeyHub API client.                                     *)
(***************************************************************************)
\* C26 as stated: a read reports NoSecretErr only when the backend answered
\* and returned no item, that is when the record is missing; a failed
\* request is reported by a different error.
C26_NotFoundOnlyWhenMissing ==
    (kcCall.fn # "none") =>
        /\ (kcRet.err = NoSecretErr) => (kcCall.fault = "none" /\ ~kcCall.present)
        /\ (kcCall.fault # "none") => (kcRet.err # "nil" /\ kcRet.err # NoSecretErr)

\* what the client does: NoSecretErr for a missing record and for every
\* failed request alike, the record otherwise
C26_EveryFailureIsNoSecretErr ==
    (kcCall.fn # "none") =>
        IF kcCall.fault = "none" /\ kcCall.present
        THEN kcRet = [found |-> TRUE, err |-> "nil"]
        ELSE kcRet = [found |-> FALSE, err |-> NoSecretErr]

\* a network failure while the record exists is reported as NoSecretErr
C26_UnavailableLooksMissing ==
    /\ kcCall.fn = "GetVaultRecord"
    /\ kcCall.fault = "network"
    /\ kcCall.present
    /\ kcRet.err = NoSecretErr


\* the error a failed read is reported with
ErrReadFailed == DecisionError("readfailed")

\* C30: when the initial read of a Push or a Delete fails with an error
\* other than NotFound, the call returns that error in the same step and
\* issues no backend write, import or delete: the backend object is left
\* as it was, and every finished call with a failed read wrote nothing.
C30_FailedReadNoWrite ==
    [][/\ (/\ psOp.op \in {"push", "delete"}
           /\ psPc = "read"
           /\ psRead'.status = "error") =>
              /\ psPc' = "done"
              /\ psRet'.err = ErrReadFailed
              /\ psWrote' = "none"
              /\ vault' = vault
       /\ \A i \in DOMAIN psTrace' :
              (psTrace'[i].req.op \in {"push", "delete"}
               /\ psTrace'[i].read.status = "error")
                  => (psTrace'[i].wrote = "none" /\ psTrace'[i].err = ErrReadFailed)]_vars

\* a Delete of an object that exists and is owned, whose read fails
C30_Witness ==
    \E i \in DOMAIN psTrace :
        /\ psTrace[i].req.op = "delete"
        /\ psTrace[i].read.status = "error"
        /\ psTrace[i].err = ErrReadFailed
        /\ psTrace[i].wrote = "none"
        /\ vault[psTrace[i].req.key].present
        /\ Owned(vault[psTrace[i].req.key])

\* a Push whose read fails while nothing is stored under the key
C30_WitnessPush ==
    \E i \in DOMAIN psTrace :
        /\ psTrace[i].req.op = "push"
        /\ psTrace[i].read.status = "error"
        /\ psTrace[i].err = ErrReadFailed
        /\ ~vault[psTrace[i].req.key].present


(***************************************************************************)
(* Claims about the resolution of dotted property paths.                   *)
(***************************************************************************)
\* the object {key: value}
OneField(key, value) == JsonObject(MapSet(EmptyMap, key, value))

\* the examples of the specification and of
\* TestAzureKeyVaultSecretManagerGetSecret: value, path, expected bytes
PropertyExamples ==
    { [value |-> OneField(<<"foo", "json">>, JsonString("bar")),
       path |-> <<"foo", "json">>, bytes |-> <<"bar">>],
      [value |-> OneField(<<"foo">>, OneField(<<"key">>, JsonString("value"))),
       path |-> <<"foo", "key">>, bytes |-> <<"value">>],
      [value |-> OneField(<<"foo">>, OneField(<<"foo", "json">>, JsonString("bar"))),
       path |-> <<"foo", "foo", "json">>, bytes |-> <<"bar">>],
      [value |-> OneField(<<"foo">>, OneField(<<"key">>, JsonString("value"))),
       path |-> <<"foo">>,
       bytes |-> <<"{", "\"", "key", "\"", ":", "\"", "value", "\"", "}">>] }

PropertyExamplesAgree ==
    \A e \in PropertyExamples :
        /\ e.value \in JsonValues
        /\ ResolvePath(e.value, e.path).found
        /\ ResultBytes(ResolvePath(e.value, e.path).value) = e.bytes

\* C25: a path that is, as a whole, a literal key of the object yields that
\* key's value, whatever nested structure its segments could also reach;
\* only when the whole path is no key is it split at a dot, at the longest
\* prefix that is a key, and resolved in that key's value; a string result
\* is returned as its text and an object result re-serialized as JSON; the
\* specification's examples come out as stated.
C25_LiteralKeyFirst ==
    /\ PropertyExamplesAgree
    /\ rpCall.called =>
        LET v == rpCall.value
            path == rpCall.path
            whole == path \in DOMAIN v.fields
        IN /\ whole =>
                 /\ rpRet.err = <<>>
                 /\ rpRet.bytes = IF v.fields[path].kind = "string"
                                  THEN <<v.fields[path].str>>
                                  ELSE Marshal(v.fields[path])
           /\ (~whole /\ rpRet.err = <<>>) =>
                 \E n \in 1..(Len(path) - 1) :
                     LET head == SubSeq(path, 1, n)
                         rest == SubSeq(path, n + 1, Len(path))
                     IN /\ head \in DOMAIN v.fields
                        /\ \A m \in (n + 1)..Len(path) :
                               SubSeq(path, 1, m) \notin DOMAIN v.fields
                        /\ v.fields[head].kind = "object"
                        /\ rest \in DOMAIN v.fields[head].fields
                        /\ rpRet.bytes = <<v.fields[head].fields[rest].str>>
           /\ rpRet.err \in {<<>>, ErrPropNotExist(path)}
           /\ (~whole /\ rpRet.err # <<>>) =>
                 \A n \in 1..(Len(path) - 1) :
                     (/\ SubSeq(path, 1, n) \in DOMAIN v.fields
                      /\ \A m \in (n + 1)..Len(path) :
                             SubSeq(path, 1, m) \notin DOMAIN v.fields)
                        => \/ v.fields[SubSeq(path, 1, n)].kind # "object"
                           \/ SubSeq(path, n + 1, Len(path))
                                  \notin DOMAIN v.fields[SubSeq(path, 1, n)].fields

\* the object holds the literal key "foo.json" and also "foo" with a nested
\* "json" of another value: the path foo.json yields the literal key's value
C25_Witness ==
    /\ rpCall.called
    /\ rpCall.path = <<"foo", "json">>
    /\ DOMAIN rpCall.value.fields = {<<"foo", "json">>, <<"foo">>}
    /\ rpCall.value.fields[<<"foo", "json">>] = JsonString("bar")
    /\ rpCall.value.fields[<<"foo">>] = OneField(<<"json">>, JsonString("value"))
    /\ rpRet = [bytes |-> <<"bar">>, err |-> <<>>]

\* an object result comes back as JSON text
C25_WitnessObject ==
    /\ rpCall.called
    /\ rpCall.path = <<"foo">>
    /\ rpRet = [bytes |-> <<"{", "\"", "key", "\"", ":", "\"", "value", "\"", "}">>,
                err |-> <<>>]


(***************************************************************************)
(* Claims about the SecretStore validator: aggregation and registrations   *)
(***************************************************************************)
\* the (condition, regex) positions, 1-based, of the regexes that fail
FailingRegexes(store) ==
    {cr \in (DOMAIN store.conditions) \X (1..MaxRegexes) :
        /\ cr[2] \in DOMAIN store.conditions[cr[1]]
        /\ ~store.conditions[cr[1]][cr[2]]}

\* position a comes before position b in (condition, regex) order
Before(a, b) == a[1] < b[1] \/ (a[1] = b[1] /\ a[2] < b[2])

RegexMessages == {ErrRegex(c, r) : c \in 0..MaxConditions, r \in 0..MaxRegexes}

IsRegexMessage(e) == e \in RegexMessages

\* the backend check of the store passes: one backend, registered, accepted
BackendAccepted ==
    /\ BackendsSet(vsCall.store) = 1
    /\ \A b \in vsCall.store.provider : vsCall.reg[b] # "none"
    /\ ~vsCall.providerErr

RegistrationsOf(b) == {i \in DOMAIN vsRegs : vsRegs[i][1] = b}

\* the status the most recent registration of b gave it
LatestStatus(b) ==
    vsRegs[CHOOSE i \in RegistrationsOf(b) : \A j \in RegistrationsOf(b) : j <= i][2]

\* this step is a validateStore call on a store with exactly the backend b,
\* conditions that compile and a backend validator that accepts it
ValidStoreChecked(b) ==
    /\ vsCount' = vsCount + 1
    /\ vsCall'.store.provider = {b}
    /\ ConditionsCompile(vsCall'.store)
    /\ ~vsCall'.providerErr

\* C32: validateStore goes by the most recent registration of the store's
\* backend kind: the store is accepted with exactly the one unmaintained
\* warning when that registration says NotMaintained and with no warning
\* when it says Maintained, whatever earlier registrations of the kind
\* said; a kind never registered is refused.
C32_LatestRegistration ==
    [][\A b \in Backends :
          ValidStoreChecked(b) =>
              IF RegistrationsOf(b) = {}
              THEN vsRet'.err # <<>>
              ELSE /\ vsRet'.err = <<>>
                   /\ vsRet'.warns = IF LatestStatus(b) = "NotMaintained"
                                     THEN <<WarnStoreUnmaintained>> ELSE <<>>]_vars

\* aws was registered as Maintained and then again as NotMaintained: the
\* store is accepted with the one warning
C32_Witness ==
    /\ vsRegs = << <<"aws", "Maintained">>, <<"aws", "NotMaintained">> >>
    /\ vsCall.called
    /\ vsCall.store.provider = {"aws"}
    /\ vsCall.reg = builder
    /\ vsRet = [warns |-> <<WarnStoreUnmaintained>>, err |-> <<>>]

\* registered as NotMaintained and then again as Maintained: no warning
C32_WitnessMaintained ==
    /\ vsRegs = << <<"aws", "NotMaintained">>, <<"aws", "Maintained">> >>
    /\ vsCall.called
    /\ vsCall.store.provider = {"aws"}
    /\ vsCall.reg = builder
    /\ vsRet = [warns |-> <<>>, err |-> <<>>]


(***************************************************************************)
(* Claims about reading tags (metadataPolicy Fetch)                        *)
(***************************************************************************)
\* getTagMap() of the tests: tagname=tagvalue, tagname2=tagvalue2
TestTagMap ==
    MapSet(MapSet(EmptyMap, <<"tagname">>, JsonString("tagvalue")),
           <<"tagname2">>, JsonString("tagvalue2"))

\* jsonTagTestString
JsonTagTestString ==
    <<"{", "\"", "tagname", "\"", ":", "\"", "tagvalue", "\"", ",",
      "\"", "tagname2", "\"", ":", "\"", "tagvalue2", "\"", "}">>

\* the tag cases of TestAzureKeyVaultSecretManagerGetSecret, which are the
\* same for the three object types: tags, property, expected value, error
TagTests ==
    { [tags |-> TestTagMap, property |-> <<"tagname">>,
       bytes |-> <<"tagvalue">>, err |-> <<>>],
      [tags |-> TestTagMap, property |-> <<>>,
       bytes |-> JsonTagTestString, err |-> <<>>],
      [tags |-> EmptyMap, property |-> <<>>,
       bytes |-> <<"{", "}">>, err |-> <<>>],
      [tags |-> TestTagMap, property |-> <<"something">>,
       bytes |-> <<>>, err |-> <<"tag ", "something", " does not exist">>],
      [tags |-> MapSet(EmptyMap, <<"foo">>, JsonString("bar")),
       property |-> <<"foo">>, bytes |-> <<"bar">>, err |-> <<>>],
      [tags |-> MapSet(EmptyMap, <<"foo">>,
                       JsonObject(MapSet(EmptyMap, <<"key">>, JsonString("value")))),
       property |-> <<"foo">>,
       bytes |-> <<"{", "\"", "key", "\"", ":", "\"", "value", "\"", "}">>,
       err |-> <<>>],
      [tags |-> MapSet(EmptyMap, <<"foo">>,
                       JsonObject(MapSet(EmptyMap, <<"key">>, JsonString("value")))),
       property |-> <<"foo", "key">>, bytes |-> <<"value">>, err |-> <<>>] }

TagTestsAgree ==
    \A t \in TagTests :
        /\ t.tags \in TagMaps
        /\ getSecretTag(t.tags, t.property) = [bytes |-> t.bytes, err |-> t.err]

\* one "name":"value" entry of the JSON object of all tags
TagEntry(tags, name) ==
    <<"\"">> \o KeyText(name) \o <<"\"", ":", "\"">>
    \o Escape(TagText(tags[name])) \o <<"\"">>

\* the text holds the entry
Holds(text, entry) ==
    \E i \in 1..Len(text) :
        /\ i + Len(entry) - 1 <= Len(text)
        /\ SubSeq(text, i, i + Len(entry) - 1) = entry

\* the length of the entries of the named tags, commas between them included
RECURSIVE EntriesLen(_, _)
EntriesLen(tags, names) ==
    IF names = {} THEN 0
    ELSE LET name == CHOOSE n \in names : TRUE
         IN Len(TagEntry(tags, name)) + (IF names = {name} THEN 0 ELSE 1)
            + EntriesLen(tags, names \ {name})

\* C33: reading tags of a secret, a key or a certificate alike: a property
\* that names an existing tag yields that tag's value; an empty property
\* yields all tags as one JSON object, "{}" when there are none; a property
\* of which no leading part names a tag fails with the tag-does-not-exist
\* error.
C33_TagLookup ==
    /\ TagTestsAgree
    /\ (tgCall.called /\ tgCall.objType \in SupportedTypes) =>
        LET tags == tgCall.tags
            property == tgCall.property
        IN /\ (property # <<>> /\ property \in DOMAIN tags) =>
                 tgRet = [bytes |-> TagText(tags[property]), err |-> <<>>]
           /\ (property = <<>>) =>
                 /\ tgRet.err = <<>>
                 /\ tgRet.bytes[1] = "{"
                 /\ tgRet.bytes[Len(tgRet.bytes)] = "}"
                 /\ \A name \in DOMAIN tags : Holds(tgRet.bytes, TagEntry(tags, name))
                 /\ Len(tgRet.bytes) = 2 + EntriesLen(tags, DOMAIN tags)
                 /\ (DOMAIN tags = {}) => tgRet.bytes = <<"{", "}">>
           /\ (/\ property # <<>>
               /\ \A n \in 1..Len(property) : SubSeq(property, 1, n) \notin DOMAIN tags) =>
                 tgRet = [bytes |-> <<>>, err |-> ErrTagNotExist(property)]

\* a certificate with two tags read with a property that names neither
C33_Witness ==
    /\ tgCall.called
    /\ tgCall.objType = "cert"
    /\ tgCall.tags = TestTagMap
    /\ tgCall.property = <<"something">>
    /\ tgRet = [bytes |-> <<>>, err |-> <<"tag ", "something", " does not exist">>]

\* a key with two tags read without a property: all tags as JSON
C33_WitnessAllTags ==
    /\ tgCall.called
    /\ tgCall.objType = "key"
    /\ tgCall.tags = TestTagMap
    /\ tgCall.property = <<>>
    /\ tgRet = [bytes |-> JsonTagTestString, err |-> <<>>]

\* a secret's tag read by its name
C33_WitnessNamed ==
    /\ tgCall.called
    /\ tgCall.objType = "secret"
    /\ tgCall.tags = TestTagMap
    /\ tgCall.property = <<"tagname">>
    /\ tgRet = [bytes |-> <<"tagvalue">>, err |-> <<>>]

\* an object without tags read without a property
C33_WitnessNoTags ==
    /\ tgCall.called
    /\ tgCall.objType \in SupportedTypes
    /\ tgCall.tags = EmptyMap
    /\ tgRet = [bytes |-> <<"{", "}">>, err |-> <<>>]


(***************************************************************************)
(* Claims about the providers' own ValidateStore                           *)
(***************************************************************************)
\* the store is malformed for the provider validating it: nil, without
\* spec, without provider block, or without that provider's backend field
Malformed(provider, store) ==
    \/ store.shape # "provider"
    \/ provider \notin store.fields

\* C34: a provider's ValidateStore returns an error, and does not crash,
\* for every malformed store: a nil store, a store with no spec, a spec
\* with no provider block, a provider block without the provider's field.
C34_MalformedStoreIsError ==
    (pvCall.called /\ Malformed(pvCall.provider, pvCall.store)) =>
        /\ ~pvRet.panic
        /\ pvRet.err # "nil"

\* what the code does: KeyHub and Azure Key Vault return an error for every
\* malformed store, GitLab panics on every one of them
C34_OnlyGitlabPanics ==
    (pvCall.called /\ Malformed(pvCall.provider, pvCall.store)) =>
        IF pvCall.provider = "gitlab"
        THEN pvRet.panic
        ELSE ~pvRet.panic /\ pvRet.err # "nil"

\* KeyHub rejects a provider block without the KeyHub field
C34_WitnessKeyHub ==
    /\ pvCall.called
    /\ pvCall.provider = "keyhub"
    /\ pvCall.store.shape = "provider"
    /\ pvCall.store.fields = {"gitlab"}
    /\ pvRet = Returned(ErrMissingProvider)


(***************************************************************************)
(* Claims about the completeness of GetAllSecrets                          *)
(***************************************************************************)
\* the (record position, property) pairs fetching all properties returns
FetchedPairs(secrets) ==
    {ip \in (DOMAIN secrets) \X SupportedProperties :
        ip[2] \in FetchAllProperties(secrets[ip[1]])}

\* the value GetAllSecrets stores for a fetched property of a record
FetchedValue(record, p) ==
    IF p = "file" THEN DecodeString(record.file).value ELSE ValueOf(p)

\* C35 as stated: the result of GetAllSecrets holds a distinct entry for
\* every non-empty fetch-all property of every matched record, also when
\* two matched records have the same name or a record has one property.
C35_NoDataLost ==
    GasReturned =>
        LET secrets == kpCall.records
        IN /\ Cardinality(DOMAIN kpRet.data) = Cardinality(FetchedPairs(secrets))
           /\ \A ip \in FetchedPairs(secrets) :
                  \E key \in DOMAIN kpRet.data :
                      kpRet.data[key] = FetchedValue(secrets[ip[1]], ip[2])

\* the key GetAllSecrets gives a fetched property of a record
KeyOfPair(secrets, ip) ==
    IF Cardinality(FetchAllProperties(secrets[ip[1]])) = 1
    THEN secrets[ip[1]].name
    ELSE SlashKey(secrets[ip[1]].name, ip[2])

\* what GetAllSecrets does: an entry is lost exactly when two fetched
\* properties get the same key
C35_LostOnKeyClash ==
    GasReturned =>
        LET secrets == kpCall.records
            pairs == FetchedPairs(secrets)
        IN (Cardinality(DOMAIN kpRet.data) < Cardinality(pairs))
               <=> \E a, b \in pairs :
                       a # b /\ KeyOfPair(secrets, a) = KeyOfPair(secrets, b)

\* two matched records of the same name with a password each: one entry
C35_SameNameClash ==
    /\ GasReturned
    /\ Len(kpCall.records) = 2
    /\ kpCall.records[1].name = <<"A">>
    /\ kpCall.records[2].name = <<"A">>
    /\ FetchAllProperties(kpCall.records[1]) = {"password"}
    /\ FetchAllProperties(kpCall.records[2]) = {"password"}
    /\ DOMAIN kpRet.data = {<<"A">>}

\* a record "A" with two properties and a record "A/password" with one:
\* both are stored under "A/password"
C35_SinglePropertyClash ==
    /\ GasReturned
    /\ Len(kpCall.records) = 2
    /\ kpCall.records[1].name = <<"A">>
    /\ kpCall.records[2].name = <<"A", "/", "password">>
    /\ FetchAllProperties(kpCall.records[1]) = {"link", "password"}
    /\ FetchAllProperties(kpCall.records[2]) = {"link"}
    /\ DOMAIN kpRet.data = {<<"A", "/", "link">>, <<"A", "/", "password">>}


(***************************************************************************)
(* C36: what getVaultRecord returns against the record in KeyHub           *)
(***************************************************************************)
\* the calls that returned a record
GvGotRecord(p) == GvDone(p) /\ gvRet[p].err = "nil" /\ gvRef[p].Version = ""

\* the record was already modified again before the call began
Superseded(p) == gvRet[p].record.lastModifiedAt < gvLog[p].start

\* C36: every record getVaultRecord returns is the content the record had
\* in KeyHub at some instant between the start and the return of the call:
\* no call returns content that was superseded before the call began
C36_NoSupersededContent ==
    \A p \in Procs :
        GvGotRecord(p) =>
            /\ gvRet[p].record.uuid = gvRef[p].Key
            /\ ~Superseded(p)
            /\ gvRet[p].record.lastModifiedAt <= remote[gvRef[p].Key]

\* what the code keeps: a fetched record is the content of some instant of
\* the call, and a record from the cache was last modified in the second in
\* which the record in KeyHub was last modified when the call probed it
C36_FreshToTheSecond ==
    \A p \in Procs :
        GvGotRecord(p) =>
            /\ gvRet[p].record.uuid = gvRef[p].Key
            /\ gvRet[p].record.lastModifiedAt <= remote[gvRef[p].Key]
            /\ Unix(gvRet[p].record.lastModifiedAt) >= Unix(gvLog[p].start)
            /\ gvLog[p].fetched => ~Superseded(p)
            /\ GvHit(p) =>
                   Unix(gvRet[p].record.lastModifiedAt) = Unix(gvTok[p])

\* a cache hit returned content superseded within the same second
C36_StaleWithinSecond ==
    \E p \in Procs :
        /\ GvGotRecord(p) /\ GvHit(p) /\ Superseded(p)
        /\ Unix(gvRet[p].record.lastModifiedAt) = Unix(gvLog[p].start)


(***************************************************************************)
(* C37: concurrent calls on one client all return                          *)
(***************************************************************************)
\* the record locks worker p holds
LocksHeldBy(p) == {b \in Buckets : p \in kmHolder[b]}

GvRunning(p) == gvPc[p] \notin {"idle", "done"}

\* C37: concurrent calls on one KeyHub client all eventually return when
\* every backend call returns: a caller holds at most one record lock at a
\* time, holds none once its call has returned (with a record or an error),
\* and every started call returns
C37_CallsReturn ==
    /\ [](\A p \in Procs : Cardinality(LocksHeldBy(p)) <= 1)
    /\ [](\A p \in Procs : ~GvRunning(p) => LocksHeldBy(p) = {})
    /\ \A p \in Procs : GvRunning(p) ~> GvDone(p)

\* a call waits at LockKey for a record another call is fetching
C37_Witness ==
    \E p, q \in Procs :
        /\ p # q
        /\ gvPc[p] = "lock" /\ gvPc[q] = "fetch"
        /\ LocksHeldBy(q) = {Bucket(gvRef[p].Key)}
        /\ calls[q] = MaxCalls

\* a call that waited at LockKey behind an error return has returned
C37_WitnessAfterError ==
    \E p, q \in Procs :
        /\ p # q
        /\ GvDone(q) /\ gvRet[q].err = "NoSecretErr" /\ gvLog[q].locked
        /\ GvDone(p) /\ gvRet[p].err = "nil" /\ gvLog[p].locked
        /\ gvRef[p].Key = gvRef[q].Key


(***************************************************************************)
(* C38: GetVaultRecordMetadata over the pages of the backend               *)
(***************************************************************************)
\* the matching records of the call in progress
IvMatching == Matching(ivCall.filter, ivCall.total)

IvReturned == ivPc = "done" /\ ivRet.err = "nil"

\* requests needed to see a page with fewer than batchSize items
PagesNeeded(n) == (n \div BatchSize) + 1

\* C38: GetVaultRecordMetadata returns all matching records of the backend:
\* it requests range after range of batchSize items until a page with fewer
\* than batchSize items came back, and stops at the first failed request
C38_AllPagesFetched ==
    /\ IvReturned =>
           /\ ivRet.result = IvMatching
           /\ Len(ivRequests) = PagesNeeded(Len(IvMatching))
    /\ ivPc = "done" /\ ivRet.err # "nil" => ivRet.result = <<>>

\* what the code does: one request without a Range header, whatever came
\* back; the call returns the items of that response, or the error
C38_OneRequestNoRange ==
    /\ Len(ivRequests) <= 1
    /\ \A i \in 1..Len(ivRequests) : ivRequests[i] = <<>>
    /\ ivWrapper = <<"nil">>
    /\ ivPc = "done" => Len(ivRequests) = 1
    /\ IvReturned =>
           ivRet.result = ServerPage(IvMatching, <<>>, ivCall.limit)
    /\ ivPc = "done" /\ ivRet.err # "nil" => ivRet.result = <<>>

\* more than one page of matching records: the records after the first page
\* are not returned
C38_RecordsMissing ==
    /\ IvReturned
    /\ ivCall.limit = BatchSize
    /\ Len(IvMatching) > BatchSize
    /\ ivRet.result = SubSeq(IvMatching, 1, BatchSize)


(***************************************************************************)
(* C39: the requests of GitLab getVariables                                *)
(***************************************************************************)
GlCalled == glCount > 0

\* the backend's answer to the first and to the last request of the call
GlFirst == Answer(glCall.first, glCall.key, glCall.scope)

GlLast ==
    IF Len(glRequests) = 2 THEN Answer(glCall.retry, glCall.key, "*") ELSE GlFirst

\* the first request failed with HTTP 404 and the store's environment is
\* neither empty nor the wildcard
GlRetryCase ==
    /\ glCall.first = "notFound"
    /\ glCall.environment \notin {"", "*"}

\* C39: getVariables issues at most two requests; it retries, once and with
\* the environment scope "*", exactly when the first request failed with
\* HTTP 404 and the store's environment is neither empty nor the wildcard;
\* any other first failure is returned unchanged; a failed retry is
\* returned as an error; the error is nil only if the last request
\* succeeded, and then the data is that request's
C39_AtMostOneRetry ==
    GlCalled =>
        /\ Len(glRequests) \in {1, 2}
        /\ glRequests[1] = [key |-> glCall.key, scope |-> glCall.scope]
        /\ Len(glRequests) = 2 <=> GlRetryCase
        /\ Len(glRequests) = 2 => glRequests[2] = [key |-> glCall.key, scope |-> "*"]
        /\ (GlFirst.err # <<>> /\ ~GlRetryCase) =>
               glRet = [data |-> <<>>, status |-> GlFirst.status, err |-> GlFirst.err]
        /\ (GlRetryCase /\ GlLast.err # <<>>) =>
               /\ glRet.err # <<>>
               /\ glRet.data = <<>>
               /\ SubSeq(glRet.err, 4, Len(glRet.err)) = GlLast.err
        /\ glRet.err = <<>> =>
               /\ GlLast.err = <<>>
               /\ glRet.data = GlLast.data

\* the retry with scope "*" found the variable
C39_Witness ==
    /\ GlCalled /\ GlRetryCase
    /\ Len(glRequests) = 2
    /\ glCall.scope = "prod"
    /\ glRet = [data |-> Variable(glCall.key, "*"), status |-> StatusOK, err |-> <<>>]

\* a 404 with the wildcard environment, and a refusal, are returned as they
\* are after one request
C39_WitnessNoRetry ==
    /\ GlCalled
    /\ Len(glRequests) = 1
    /\ \/ glCall.first = "notFound" /\ glCall.environment = "*"
       \/ glCall.first = "forbidden" /\ glCall.environment = "prod"
    /\ glRet.err = GlFirst.err


(***************************************************************************)
(* C40: ValidateUpdate looks at the new object only                        *)
(***************************************************************************)
\* C40: the outcome of ExternalSecretValidator.ValidateUpdate is that of
\* ValidateCreate of the new object, whatever the old object was, and
\* ValidateDelete accepts every object
C40_UpdateDependsOnNewOnly ==
    /\ vdCall.op = "update" => vdRet = validateExternalSecret(vdCall.obj)
    /\ vdCall.op = "create" => vdRet = validateExternalSecret(vdCall.obj)
    /\ vdCall.op = "delete" => vdRet = <<>>

\* an update from an object that validation refuses to one it accepts is
\* admitted
C40_Witness ==
    /\ vdCall.op = "update"
    /\ validateExternalSecret(vdCall.old) # <<>>
    /\ vdCall.obj.kind = "ExternalSecret"
    /\ vdRet = <<>>

\* an update from an object that validation accepts to one it refuses is
\* refused
C40_WitnessRefused ==
    /\ vdCall.op = "update"
    /\ vdCall.old.kind = "ExternalSecret"
    /\ validateExternalSecret(vdCall.old) = <<>>
    /\ vdRet # <<>>

\* an object that validation refuses may be deleted
C40_WitnessDelete ==
    /\ vdCall.op = "delete"
    /\ validateExternalSecret(vdCall.obj) # <<>>
    /\ vdRet = <<>>

=============================================================================
